---- MODULE Spec2Model ----
(***************************************************************************)
(* Caching and data-freshness subsystem of vn-market-service.              *)
(*                                                                         *)
(* The module holds several specifications over one set of variables, one  *)
(* per component under study:                                              *)
(*   SpecStore    - the persistent historical store under concurrent       *)
(*                  store / mark_date_range_as_fetched calls               *)
(*   SpecLazy     - the LazyFetchManager: triggers and background workers  *)
(*   SpecLazyFair - SpecLazy with every started thread scheduled           *)
(*   SpecRate     - the RateLimitProtector used by concurrent clients      *)
(*   SpecHistory  - history requests served by the stock and index clients *)
(*   SpecLazyHistory - history requests served by the fund and gold        *)
(*                  clients                                                *)
(*   SpecQuote    - latest-quote requests through the two quote caches     *)
(*   SpecPlanner  - the gap planner calculate_missing_date_ranges alone     *)
(*   SpecGold     - the gold client's unit conversion alone                 *)
(*   SpecWait     - one wait_for_slot call while other threads record calls *)
(*   SpecRetry    - one execute_with_rate_limit_retry call                  *)
(*   SpecWriters  - client threads and lazy-fetch workers writing one table *)
(*   SpecLocks    - threads taking the locks of the components              *)
(*   SpecGoldQuote - latest-quote requests served by the gold client        *)
(*   SpecMemory   - get, set, delete and cleanup calls on one MemoryCache   *)
(*   SpecShutdown - the background tasks stopped while lazy fetches run     *)
(*   SpecIp       - the per-address limiter next to the global limiter      *)
(*   SpecIpCleanup - the cleanup of the per-address limiters                *)
(*   SpecSeed     - the DataSeeder seeding the four asset categories        *)
(*   SpecRoute    - requests on the universal history route                 *)
(*   SpecGoldChi  - latest-quote requests for the per-Chi gold symbol       *)
(*   SpecRestart  - the background tasks started, stopped and started again *)
(* Each specification leaves the variables of the other components         *)
(* unchanged.  Dates are day ordinals (ISO date strings compare the same   *)
(* way), prices are small integers, NULL stands for SQL NULL / None.       *)
(***************************************************************************)
EXTENDS Integers, Sequences, FiniteSets, TLC

VARIABLES
    historical_records,  \* table historical_records of one (symbol, asset_type): date -> row
    mark_pc,             \* per marker thread: position inside the legacy mark_date_range_as_fetched
    mark_dates,          \* per marker thread: dates_to_mark computed in the first lock section
    active_fetches,      \* LazyFetchManager._active_fetches
    fetch_status,        \* LazyFetchManager._fetch_status: key -> status record
    trigger_pc,          \* per caller of trigger_lazy_fetch: position and key
    worker,              \* background worker threads: slot -> position, key, chunks, chunk index
    clock,               \* time.time() in seconds; day d of the calendar starts at d * 86400
    minute_calls,        \* RateLimitProtector._minute_calls
    hour_calls,          \* RateLimitProtector._hour_calls
    last_call_time,      \* RateLimitProtector._last_call_time
    rl_pc,               \* per client thread: position in wait_for_slot / provider call / record_call
    rl_start,            \* per client thread: start_time of its wait_for_slot
    recorded,            \* timestamps of the record_call invocations of the last minute
    rl_last,             \* the last call on the limiter since the clock moved, and its result
    enable_throttling,   \* config['enable_throttling'] of the limiter
    asset_type,          \* the asset type whose client and table are under study
    hist_req,            \* arguments of the last history call
    hist_result,         \* list returned by the last history call
    hist_calls,          \* provider requests made by the last history call, in order
    hist_marked,         \* sum of the values mark_date_range_as_fetched returned to it
    hist_n,              \* consecutive equal history calls with no other write or clock step between
    quote_memory,        \* the QuoteCache: entries in dict order
    quote_row,           \* the row of the symbol in the quotes table of the CacheManager
    q_last,              \* the last quote request: time, what it found stored, what it returned
    plan_req,            \* arguments of the last calculate_missing_date_ranges call
    plan_gaps,           \* the ranges it returned
    conv_req,            \* arguments of the last _apply_unit_conversion call
    conv_out,            \* the records it returned
    rl_wait,             \* the wait_for_slot call under study: position, start_time, timeout, sleeps, result
    retry,               \* the execute_with_rate_limit_retry call under study
    store_lock,          \* the thread that holds the _lock of the asset's cache manager, 0 when free
    writing,             \* per writer thread: its write-and-commit sequence on the table
    lock_thr,            \* per thread: the call it is in, the component locks it holds, the one it waits for
    hreq,                \* the last request on the /history/{symbol} route and its response
    seed,                \* the seed_all_assets call under study: position, results gathered, counts, outcome
    ipl,                 \* the IPRateLimiter: _ip_limiters, _last_cleanup, the last check and its answer
    chunk_wait,          \* per worker slot: seconds slept since its last chunk was attempted
    bg,                  \* the BackgroundCacheManager: _running, its refresh task, its cleanup thread
    mem                  \* a MemoryCache of its own: entries, max_size, time.time(), _hits, _misses, calls made, last call

storeVars == <<historical_records, mark_pc, mark_dates>>
lazyVars == <<active_fetches, fetch_status, trigger_pc, worker>>
rateVars == <<clock, minute_calls, hour_calls, last_call_time, rl_pc, rl_start, recorded,
              rl_last, enable_throttling>>
histObs == <<asset_type, hist_req, hist_result, hist_calls, hist_marked>>
histVars == <<histObs, hist_n>>
quoteVars == <<quote_memory, quote_row, q_last>>
writeVars == <<store_lock, writing>>
\* The variables of the components studied on their own.
lateVars == <<seed, hreq>>
unitVars == <<lock_thr, mem, bg, chunk_wait, ipl, lateVars>>
\* Everything but unitVars.
olderVars == <<storeVars, lazyVars, rateVars, histVars, quoteVars, writeVars,
               plan_req, plan_gaps, conv_req, conv_out, rl_wait, retry>>
\* Arguments and results of the functions studied alone.
pureVars == <<writeVars, plan_req, plan_gaps, conv_req, conv_out, rl_wait, retry, unitVars>>
\* Everything but the variable of one component studied alone.
exceptLock == <<olderVars, mem, bg, chunk_wait, ipl, lateVars>>
exceptMem == <<olderVars, lock_thr, bg, chunk_wait, ipl, lateVars>>
exceptBg == <<olderVars, lock_thr, mem, chunk_wait, ipl, lateVars>>
exceptIp == <<olderVars, lock_thr, mem, bg, chunk_wait, lateVars>>
exceptSeed == <<olderVars, lock_thr, mem, bg, chunk_wait, ipl, hreq>>
\* What a request on the history route leaves alone among pureVars.
outsideRoute == <<writeVars, plan_req, plan_gaps, conv_req, conv_out, rl_wait, retry,
                  lock_thr, mem, bg, chunk_wait, ipl, seed>>
vars == <<storeVars, lazyVars, rateVars, histVars, quoteVars, pureVars>>

\* What the actions of one component leave alone in the other components.
outsideStore == <<lazyVars, rateVars, histVars, quoteVars, pureVars>>
outsideLazy == <<mark_pc, mark_dates, rateVars, histObs, quoteVars, pureVars>>
\* The same for the steps of the chunk loop, which count the worker's sleep.
outsideChunks == <<mark_pc, mark_dates, rateVars, histObs, quoteVars, writeVars, plan_req,
                   plan_gaps, conv_req, conv_out, rl_wait, retry, lock_thr, mem, bg, ipl,
                   lateVars>>
outsideRate == <<storeVars, lazyVars, histVars, quoteVars, pureVars>>

----------------------------------------------------------------------------
(* Bounds *)

MaxDate == 4          \* dates are the day ordinals 1..MaxDate
MaxBatch == 2         \* longest records list handed to one store call
NumMarkers == 1       \* threads inside mark_date_range_as_fetched, beside the storing thread
NumCallers == 2       \* threads calling trigger_lazy_fetch
MaxWorkers == 3       \* background worker threads alive at once
NumClients == 2       \* threads calling the provider through the rate limiter
MaxPerMinute == 2     \* config max_calls_per_minute
MaxPerHour == 4       \* config max_calls_per_hour
TickSeconds == 20     \* the clock advances in steps of this many seconds
MaxClock == 120       \* the clock stops here
NoonSeconds == 43200  \* time of day of every history request
ShortTimeout == 10    \* the shorter timeout handed to wait_for_slot, in seconds
MaxRetries == 2       \* largest max_retries handed to execute_with_rate_limit_retry
NumLockThreads == 3   \* threads calling into the components that own a lock
NumWriters == 2       \* threads writing to the table of one symbol
MaxCalls == 5         \* provider calls made through the limiter in one run
MemMaxSize == 1       \* max_size of the QuoteCache
MaxQuoteTicks == 3    \* half-TTL clock steps in a run of quote requests
SmallSize == 2        \* max_size of the small MemoryCache studied alone
LargeSize == 20       \* max_size of the large one, a tenth of which is two entries
MaxMemTime == 3       \* the seconds that pass on the MemoryCache studied alone
MaxMemCalls == 3      \* get and set calls on the MemoryCache studied alone
CleanupSleepSteps == 3 \* one-second waits between two cleanups (1800 in the source)
ErrorSleepSteps == 2  \* one-second waits after a failed cleanup (300 in the source)
NumIps == 2           \* client addresses
MaxTrackedIps == 2    \* max_tracked_ips of the IPRateLimiter (10000 in the source)
NumStoredIps == 3     \* addresses the map holds when its cleanup is studied
MaxSeedCount == 2     \* assets one category has to seed
MaxRouteRequests == 2 \* requests made on the history route
MaxRestarts == 1      \* start_background_tasks calls after a stop
SeededAssets == 100   \* seed_all_assets: more assets than this count as seeded
IpMaxPerMinute == 2   \* max_calls_per_minute of the per-address limiters
IpMaxPerHour == 3     \* max_calls_per_hour of the per-address limiters
MaxIpCalls == 2       \* calls one address records in one run
MaxGoldDays == 2      \* days, and records, of one gold history result

Dates == 1..MaxDate
Markers == 1..NumMarkers
Callers == 1..NumCallers
WorkerSlots == 1..MaxWorkers
Clients == 1..NumClients
Writers == 1..NumWriters
LockThreads == 1..NumLockThreads
NULL == 0 - 1

\* datetime.now() as a day ordinal.
today == clock \div 86400

----------------------------------------------------------------------------
(* Persistent historical store: src/app/cache/historical_cache.py *)

\* A row of historical_records (price columns and data_json); NoRow = no row for the date.
NoRow == [open |-> NULL, high |-> NULL, low |-> NULL, close |-> NULL,
          nav |-> NULL, data_json |-> "absent"]

\* The row written by the legacy placeholder INSERT: every price 0.0, data_json '{}'.
PlaceholderRow == [open |-> 0, high |-> 0, low |-> 0, close |-> 0,
                   nav |-> 0, data_json |-> "{}"]

\* Record dicts callers hand to store_historical_records (without their date):
\* a full OHLC bar, a provider row whose NaN prices became 0.0, a NAV-only
\* record and a record that lacks high and low (the module's own sample data).
FullBar(v) == [open |-> v, high |-> v, low |-> v, close |-> v, nav |-> v]
ZeroBar == [open |-> 0, high |-> 0, low |-> 0, close |-> 0, nav |-> 0]
NavOnly(v) == [open |-> NULL, high |-> NULL, low |-> NULL, close |-> NULL, nav |-> v]
OpenClose(v) == [open |-> v, high |-> NULL, low |-> NULL, close |-> v, nav |-> NULL]
InputShapes == {FullBar(50), FullBar(70), ZeroBar, NavOnly(50), OpenClose(50)}
Dated(d, bar) == [date |-> d, open |-> bar.open, high |-> bar.high, low |-> bar.low,
                  close |-> bar.close, nav |-> bar.nav]
InputRecords == {Dated(d, bar) : d \in Dates, bar \in InputShapes}
RecordLists == UNION {[1..n -> InputRecords] : n \in 1..MaxBatch}

\* _safe_float applied column by column, plus data_json = json.dumps(record).
RowOf(rec) == [open |-> rec.open, high |-> rec.high, low |-> rec.low,
               close |-> rec.close, nav |-> rec.nav, data_json |-> "json"]

\* INSERT OR REPLACE of the records in list order (a later duplicate date wins).
RECURSIVE UpsertAll(_, _)
UpsertAll(table, records) ==
    IF records = <<>> THEN table
    ELSE UpsertAll([table EXCEPT ![Head(records).date] = RowOf(Head(records))],
                   Tail(records))

\* store_historical_records: the whole upsert runs inside one lock section.
store_historical_records(table, records) == UpsertAll(table, records)

\* get_cached_dates: SELECT DISTINCT date ... BETWEEN start AND end (any row counts).
get_cached_dates(table, start_date, end_date) ==
    {d \in Dates : start_date <= d /\ d <= end_date /\ table[d] # NoRow}

\* The WHERE clause of get_cached_records beyond the range.
RecordFilter(row) ==
    /\ row.open # NULL /\ row.high # NULL /\ row.low # NULL /\ row.close # NULL
    /\ ~(row.open = 0 /\ row.high = 0 /\ row.low = 0 /\ row.close = 0)

\* The dict built per selected row: NULL nav becomes 0.0, NULL prices become nav.
RecordDict(d, row) ==
    LET nav == IF row.nav # NULL THEN row.nav ELSE 0
    IN [date |-> d,
        open |-> IF row.open # NULL THEN row.open ELSE nav,
        high |-> IF row.high # NULL THEN row.high ELSE nav,
        low |-> IF row.low # NULL THEN row.low ELSE nav,
        close |-> IF row.close # NULL THEN row.close ELSE nav,
        nav |-> nav]

\* ORDER BY date ASC over the selected dates.
RECURSIVE RowsAscending(_, _, _)
RowsAscending(table, d, end_date) ==
    IF d > end_date THEN <<>>
    ELSE (IF d \in Dates /\ table[d] # NoRow /\ RecordFilter(table[d])
          THEN <<RecordDict(d, table[d])>> ELSE <<>>)
         \o RowsAscending(table, d + 1, end_date)

get_cached_records(table, start_date, end_date) ==
    RowsAscending(table, start_date, end_date)

\* Legacy mark_date_range_as_fetched, first lock section: dates_to_mark.
dates_to_mark(table, start_date, end_date) ==
    {d \in Dates : start_date <= d /\ d <= end_date}
        \ get_cached_dates(table, start_date, end_date)

\* Legacy mark_date_range_as_fetched, second lock section: INSERT OR REPLACE of a
\* zero row for every date computed in the first section.
WritePlaceholders(table, marked) ==
    [d \in Dates |-> IF d \in marked THEN PlaceholderRow ELSE table[d]]

\* Data model of the specification: a placeholder has every price null or zero.
IsPlaceholder(row) ==
    \A f \in {"open", "high", "low", "close", "nav"} : row[f] = NULL \/ row[f] = 0
IsReal(row) == row # NoRow /\ ~IsPlaceholder(row)

\* A writer thread outside any write.
NoWrite == [pc |-> "idle", kind |-> "none", lo |-> 0, hi |-> 0]

\* The fresh bars a client hands to store_historical_records for the days lo..hi.
RECURSIVE FreshBatch(_, _)
FreshBatch(lo, hi) ==
    IF lo > hi THEN <<>> ELSE <<Dated(lo, FullBar(70))>> \o FreshBatch(lo + 1, hi)

StoreIdle ==
    /\ mark_pc = [m \in Markers |-> "idle"]
    /\ mark_dates = [m \in Markers |-> {}]

----------------------------------------------------------------------------
(* LazyFetchManager: src/app/cache/lazy_fetch_manager.py *)

\* fetch_key = f"{symbol}_{start_date}_{end_date}" for the one symbol of the model.
LazyKeys == {<<1, MaxDate>>, <<2, MaxDate>>}

\* datetime.weekday() (Monday = 0); day 1 of the calendar is a Wednesday.
Weekday(d) == (d + 1) % 7

NoWorker == [pc |-> "none", key |-> <<0, 0>>, chunks |-> <<>>, i |-> 0]
IdleCaller == [pc |-> "idle", key |-> <<0, 0>>, last |-> "none"]

\* Line 55: the exact-duplicate check made under the lock.
IsDuplicate_Never(fetch_key, active) == FALSE
IsDuplicate(fetch_key, active) == fetch_key \in active

\* Lines 65-70: the status entry of a key is (re)created as queued.
queue_fetch_status(statuses, fetch_key) ==
    [k \in DOMAIN statuses \cup {fetch_key} |->
        IF k = fetch_key
        THEN [status |-> "queued", total_chunks |-> 0, completed_chunks |-> 0]
        ELSE statuses[k]]

\* _update_fetch_status: only an existing entry is updated.
update_fetch_status(statuses, fetch_key, status, total_chunks, completed_chunks) ==
    IF fetch_key \notin DOMAIN statuses THEN statuses
    ELSE [statuses EXCEPT ![fetch_key] = [status |-> status,
                                          total_chunks |-> total_chunks,
                                          completed_chunks |-> completed_chunks]]

\* _get_missing_date_ranges: the weekdays of [start, end] without any row, ascending.
RECURSIVE MissingWeekdays(_, _, _)
MissingWeekdays(table, d, end_date) ==
    IF d > end_date THEN <<>>
    ELSE (IF Weekday(d) < 5 /\ table[d] = NoRow THEN <<d>> ELSE <<>>)
         \o MissingWeekdays(table, d + 1, end_date)

\* _dates_to_ranges: a new range starts where two dates are more than a day apart.
RECURSIVE RangesFrom(_, _, _)
RangesFrom(dates, start_date, prev_date) ==
    IF dates = <<>> THEN << <<start_date, prev_date>> >>
    ELSE IF Head(dates) - prev_date > 1
         THEN << <<start_date, prev_date>> >>
              \o RangesFrom(Tail(dates), Head(dates), Head(dates))
         ELSE RangesFrom(Tail(dates), start_date, Head(dates))

dates_to_ranges(dates) ==
    IF dates = <<>> THEN <<>> ELSE RangesFrom(Tail(dates), Head(dates), Head(dates))

get_missing_date_ranges(table, start_date, end_date) ==
    dates_to_ranges(MissingWeekdays(table, start_date, end_date))

\* _create_chunks: every range is cut into pieces of chunk_days days.
RECURSIVE ChunksOf(_, _, _)
ChunksOf(current_start, end_dt, chunk_days) ==
    IF current_start > end_dt THEN <<>>
    ELSE LET stop == current_start + chunk_days - 1
             current_end == IF stop < end_dt THEN stop ELSE end_dt
         IN << <<current_start, current_end>> >>
            \o ChunksOf(current_end + 1, end_dt, chunk_days)

RECURSIVE create_chunks(_, _)
create_chunks(ranges, chunk_days) ==
    IF ranges = <<>> THEN <<>>
    ELSE ChunksOf(Head(ranges)[1], Head(ranges)[2], chunk_days)
         \o create_chunks(Tail(ranges), chunk_days)

\* Lines 106 and 245: 3 days per chunk for gold, 14 for funds.
ChunkDays(atype) == IF atype = "FUND" THEN 14 ELSE 3

\* _store_records: INSERT OR REPLACE without data_json, NULL prices replaced by nav.
LazyRow(v) == [open |-> v, high |-> v, low |-> v, close |-> v, nav |-> v,
               data_json |-> "null"]
store_records(table, dates, v) ==
    [d \in Dates |-> IF d \in dates THEN LazyRow(v) ELSE table[d]]

\* trigger_lazy_fetch, the lock section (lines 53-70).
TriggerLock(c, k) ==
    /\ trigger_pc[c].pc = "idle"
    /\ IF IsDuplicate(k, active_fetches)
       THEN /\ trigger_pc' = [trigger_pc EXCEPT ![c] =
                                 [pc |-> "idle", key |-> k, last |-> "dropped"]]
            /\ UNCHANGED <<active_fetches, fetch_status>>
       ELSE /\ active_fetches' = active_fetches \cup {k}
            /\ fetch_status' = queue_fetch_status(fetch_status, k)
            /\ trigger_pc' = [trigger_pc EXCEPT ![c] =
                                 [pc |-> "spawn", key |-> k, last |-> "none"]]
    /\ UNCHANGED <<worker, historical_records, hist_n, outsideLazy>>

\* trigger_lazy_fetch, lines 73-78: the worker thread is started after the lock
\* is released.
TriggerSpawn(c) ==
    /\ trigger_pc[c].pc = "spawn"
    /\ \E w \in WorkerSlots :
          /\ worker[w] = NoWorker
          /\ \A v \in WorkerSlots : v < w => worker[v] # NoWorker
          /\ worker' = [worker EXCEPT ![w] =
                           [pc |-> "start", key |-> trigger_pc[c].key,
                            chunks |-> <<>>, i |-> 0]]
    /\ trigger_pc' = [trigger_pc EXCEPT ![c] =
                         [pc |-> "idle", key |-> trigger_pc[c].key, last |-> "spawned"]]
    /\ UNCHANGED <<active_fetches, fetch_status, historical_records, hist_n, outsideLazy>>

\* _background_fetch_worker, line 95.
WorkerStart(w) ==
    /\ worker[w].pc = "start"
    /\ fetch_status' = update_fetch_status(fetch_status, worker[w].key, "running", 0, 0)
    /\ worker' = [worker EXCEPT ![w].pc = "plan"]
    /\ UNCHANGED <<active_fetches, trigger_pc, historical_records, hist_n, outsideLazy>>

\* Lines 98-110: the gaps are recomputed against the store and cut into chunks.
WorkerPlan(w, atype) ==
    /\ worker[w].pc = "plan"
    /\ LET k == worker[w].key
           missing_ranges == get_missing_date_ranges(historical_records, k[1], k[2])
           chunks == create_chunks(missing_ranges, ChunkDays(atype))
       IN IF missing_ranges = <<>>
          THEN /\ fetch_status' = update_fetch_status(fetch_status, k, "completed", 0, 0)
               /\ worker' = [worker EXCEPT ![w].pc = "finally"]
          ELSE /\ fetch_status' =
                     update_fetch_status(fetch_status, k, "running", Len(chunks), 0)
               /\ worker' = [worker EXCEPT ![w].pc = "chunk", ![w].chunks = chunks,
                                           ![w].i = 1]
    /\ UNCHANGED <<active_fetches, trigger_pc, historical_records, hist_n, outsideLazy>>

\* Lines 113-139, one chunk: the client returns records for the chunk (has_data)
\* or nothing, the records are stored, the progress is updated.
WorkerChunk(w, has_data) ==
    /\ worker[w].pc = "chunk"
    /\ LET k == worker[w].key
           i == worker[w].i
           chunk == worker[w].chunks[i]
           total == Len(worker[w].chunks)
       IN /\ historical_records' =
                IF has_data
                THEN store_records(historical_records, chunk[1]..chunk[2], 50)
                ELSE historical_records
          /\ fetch_status' = update_fetch_status(fetch_status, k, "running", total, i)
          /\ worker' = [worker EXCEPT ![w].pc = IF i < total THEN "sleep" ELSE "complete"]
    /\ chunk_wait' = [chunk_wait EXCEPT ![w] = 0]
    /\ hist_n' = 0
    /\ UNCHANGED <<active_fetches, trigger_pc, outsideChunks>>

\* _calculate_adaptive_delay, in seconds, from the count of provider_logs rows
\* of the last minute; NULL stands for a query that raised.
calculate_adaptive_delay(recent_calls) ==
    IF recent_calls = NULL THEN 1
    ELSE IF recent_calls > 40 THEN 5
    ELSE IF recent_calls > 25 THEN 3
    ELSE IF recent_calls > 15 THEN 2
    ELSE 1

RecentCalls == {NULL, 15, 16, 26, 41}

\* Line 137: max(delay, 2.0).
conservative_delay(delay) == IF delay > 2 THEN delay ELSE 2

\* Lines 134-139: the delay before the next chunk.
WorkerSleep(w) ==
    /\ worker[w].pc = "sleep"
    /\ worker' = [worker EXCEPT ![w].pc = "chunk", ![w].i = worker[w].i + 1]
    /\ \E recent_calls \in RecentCalls :
          chunk_wait' = [chunk_wait EXCEPT ![w] =
                            conservative_delay(calculate_adaptive_delay(recent_calls))]
    /\ UNCHANGED <<active_fetches, fetch_status, trigger_pc, historical_records, hist_n, outsideChunks>>

\* Lines 141-143: the client or the store raised inside the chunk; the error
\* is logged and the loop continues with the next chunk, without the progress
\* update and without the delay.
WorkerChunkError(w) ==
    /\ worker[w].pc = "chunk"
    /\ worker' = IF worker[w].i < Len(worker[w].chunks)
                 THEN [worker EXCEPT ![w].i = worker[w].i + 1]
                 ELSE [worker EXCEPT ![w].pc = "complete"]
    /\ chunk_wait' = [chunk_wait EXCEPT ![w] = 0]
    /\ UNCHANGED <<active_fetches, fetch_status, trigger_pc, historical_records, hist_n, outsideChunks>>

\* The failure handler running on a task that has already ended.
WorkerFail_Late(w) ==
    /\ worker[w].pc = "finally"
    /\ fetch_status' = update_fetch_status(fetch_status, worker[w].key, "failed", 0, 0)
    /\ worker' = worker
    /\ UNCHANGED <<active_fetches, trigger_pc, historical_records, hist_n, outsideLazy>>

\* Lines 148-150: an exception raised outside the chunk loop, while the chunks
\* are planned, ends the task as failed.
WorkerFail(w) ==
    /\ worker[w].pc = "plan"
    /\ fetch_status' = update_fetch_status(fetch_status, worker[w].key, "failed", 0, 0)
    /\ worker' = [worker EXCEPT ![w].pc = "finally"]
    /\ UNCHANGED <<active_fetches, trigger_pc, historical_records, hist_n, outsideLazy>>

\* Line 145.
WorkerComplete(w) ==
    /\ worker[w].pc = "complete"
    /\ LET total == Len(worker[w].chunks)
       IN fetch_status' =
              update_fetch_status(fetch_status, worker[w].key, "completed", total, total)
    /\ worker' = [worker EXCEPT ![w].pc = "finally"]
    /\ UNCHANGED <<active_fetches, trigger_pc, historical_records, hist_n, outsideLazy>>

\* A thread that ends without discarding its key.
WorkerFinally_KeepsKey(w) ==
    /\ worker[w].pc = "finally"
    /\ worker' = [worker EXCEPT ![w] = NoWorker]
    /\ UNCHANGED <<active_fetches, fetch_status, trigger_pc, historical_records, hist_n, outsideLazy>>

\* Lines 152-154: the key leaves the active set and the thread ends.
WorkerFinally(w) ==
    /\ worker[w].pc = "finally"
    /\ active_fetches' = active_fetches \ {worker[w].key}
    /\ worker' = [worker EXCEPT ![w] = NoWorker]
    /\ UNCHANGED <<fetch_status, trigger_pc, historical_records, hist_n, outsideLazy>>

\* store_historical_records, lines 66-67: a client thread of the fund or gold
\* client (read-through store, freshness top-up) takes the _lock of the asset's
\* cache manager and opens its connection.
StoreBegin(t, lo, hi) ==
    /\ writing[t].pc = "idle"
    /\ lo <= hi
    /\ store_lock = 0
    /\ store_lock' = t
    /\ writing' = [writing EXCEPT ![t] = [pc |-> "write", kind |-> "store",
                                          lo |-> lo, hi |-> hi]]
    /\ UNCHANGED <<storeVars, lazyVars, rateVars, histVars, quoteVars,
                   unitVars, plan_req, plan_gaps, conv_req, conv_out, rl_wait, retry>>

\* Lines 69-115: the upserts, the commit, the connection closed, the lock left.
StoreCommit(t) ==
    /\ writing[t].pc = "write"
    /\ writing[t].kind = "store"
    /\ historical_records' =
          store_historical_records(historical_records,
                                   FreshBatch(writing[t].lo, writing[t].hi))
    /\ store_lock' = IF store_lock = t THEN 0 ELSE store_lock
    /\ writing' = [writing EXCEPT ![t] = NoWrite]
    /\ UNCHANGED <<mark_pc, mark_dates, lazyVars, rateVars, histVars, quoteVars,
                   unitVars, plan_req, plan_gaps, conv_req, conv_out, rl_wait, retry>>

\* LazyFetchManager._store_records, line 334: a worker thread opens its own
\* connection for the records of a chunk; no lock is taken.
LazyStoreBegin(t, lo, hi) ==
    /\ writing[t].pc = "idle"
    /\ lo <= hi
    /\ writing' = [writing EXCEPT ![t] = [pc |-> "write", kind |-> "lazy",
                                          lo |-> lo, hi |-> hi]]
    /\ UNCHANGED <<store_lock, storeVars, lazyVars, rateVars, histVars, quoteVars,
                   unitVars, plan_req, plan_gaps, conv_req, conv_out, rl_wait, retry>>

\* Lines 335-364: the upserts and the commit of the worker.
LazyStoreCommit(t) ==
    /\ writing[t].pc = "write"
    /\ writing[t].kind = "lazy"
    /\ historical_records' =
          store_records(historical_records, writing[t].lo..writing[t].hi, 50)
    /\ writing' = [writing EXCEPT ![t] = NoWrite]
    /\ UNCHANGED <<store_lock, mark_pc, mark_dates, lazyVars, rateVars, histVars,
                   quoteVars, unitVars, plan_req, plan_gaps, conv_req, conv_out, rl_wait, retry>>

LazyIdle ==
    /\ active_fetches = {}
    /\ fetch_status = [k \in {} |-> 0]
    /\ trigger_pc = [c \in Callers |-> IdleCaller]
    /\ worker = [w \in WorkerSlots |-> NoWorker]


----------------------------------------------------------------------------
(* RateLimitProtector: src/app/cache/rate_limit_protector.py *)

MinuteWindow == 60
HourWindow == 3600
DelayBetweenCallsMs == 100
WaitTimeout == 60

\* No call on the limiter since the clock moved.
NoCall == [op |-> "none", result |-> FALSE]

\* _cleanup_old_timestamps on one deque: entries older than the cutoff leave
\* from the left.
RECURSIVE PopOld(_, _)
PopOld(calls, cutoff) ==
    IF calls # <<>> /\ Head(calls) < cutoff THEN PopOld(Tail(calls), cutoff) ELSE calls

\* should_throttle without the minimum delay between calls.
should_throttle_NoDelay(minute, hour, last, now) ==
    \/ Len(minute) >= MaxPerMinute
    \/ Len(hour) >= MaxPerHour

\* should_throttle with throttling enabled, evaluated on the cleaned deques.
should_throttle(minute, hour, last, now) ==
    \/ Len(minute) >= MaxPerMinute
    \/ Len(hour) >= MaxPerHour
    \/ (last > 0 /\ (now - last) * 1000 < DelayBetweenCallsMs)

\* A client thread enters wait_for_slot (line 117).
WaitBegin(c) ==
    /\ rl_pc[c] = "idle"
    /\ Len(hour_calls) + Cardinality({d \in Clients : rl_pc[d] # "idle"}) < MaxCalls
    /\ rl_pc' = [rl_pc EXCEPT ![c] = "wait"]
    /\ rl_start' = [rl_start EXCEPT ![c] = clock]
    /\ UNCHANGED <<clock, minute_calls, hour_calls, last_call_time, recorded, rl_last,
                   outsideRate>>
    /\ UNCHANGED enable_throttling

\* One turn of the loop of wait_for_slot: should_throttle returns false at
\* once when throttling is disabled, else it cleans the deques under the lock; the thread leaves the loop when it is not throttled or when
\* it has waited longer than the timeout, otherwise it sleeps.  The clients
\* do not look at the returned value and go on to the provider call.
WaitCheck(c) ==
    /\ rl_pc[c] = "wait"
    /\ LET minute == IF enable_throttling
                     THEN PopOld(minute_calls, clock - MinuteWindow) ELSE minute_calls
           hour == IF enable_throttling
                   THEN PopOld(hour_calls, clock - HourWindow) ELSE hour_calls
           throttled == enable_throttling
                        /\ should_throttle(minute, hour, last_call_time, clock)
       IN /\ minute_calls' = minute
          /\ hour_calls' = hour
          /\ rl_pc' = [rl_pc EXCEPT ![c] =
                IF ~throttled THEN "call"
                ELSE IF clock - rl_start[c] > WaitTimeout THEN "call"
                ELSE "wait"]
          /\ rl_last' = [op |-> "should_throttle", result |-> throttled]
    /\ UNCHANGED <<clock, last_call_time, rl_start, recorded, outsideRate>>
    /\ UNCHANGED enable_throttling

\* get_stats: the deques are cleaned before they are counted.
GetStats ==
    /\ minute_calls' = PopOld(minute_calls, clock - MinuteWindow)
    /\ hour_calls' = PopOld(hour_calls, clock - HourWindow)
    /\ rl_last' = [op |-> "get_stats", result |-> FALSE]
    /\ UNCHANGED <<clock, last_call_time, rl_pc, rl_start, recorded, enable_throttling,
                   outsideRate>>

\* The provider call between wait_for_slot and record_call.
ProviderCall(c) ==
    /\ rl_pc[c] = "call"
    /\ rl_pc' = [rl_pc EXCEPT ![c] = "record"]
    /\ UNCHANGED <<clock, minute_calls, hour_calls, last_call_time, rl_start, recorded,
                   rl_last, outsideRate>>
    /\ UNCHANGED enable_throttling

\* record_call: the timestamp is appended, then the deques are cleaned.
RecordCall(c) ==
    /\ rl_pc[c] = "record"
    /\ minute_calls' = PopOld(Append(minute_calls, clock), clock - MinuteWindow)
    /\ hour_calls' = PopOld(Append(hour_calls, clock), clock - HourWindow)
    /\ last_call_time' = clock
    /\ recorded' = Append(recorded, clock)
    /\ rl_last' = [op |-> "record_call", result |-> FALSE]
    /\ rl_pc' = [rl_pc EXCEPT ![c] = "idle"]
    /\ UNCHANGED <<clock, rl_start, outsideRate>>
    /\ UNCHANGED enable_throttling

\* Time passes; record_call timestamps a minute old or older are forgotten.
RECURSIVE WithinLastMinute(_, _)
WithinLastMinute(stamps, now) ==
    IF stamps # <<>> /\ now - Head(stamps) >= MinuteWindow
    THEN WithinLastMinute(Tail(stamps), now) ELSE stamps

Tick ==
    /\ clock + TickSeconds <= MaxClock
    /\ clock' = clock + TickSeconds
    /\ recorded' = WithinLastMinute(recorded, clock + TickSeconds)
    /\ rl_last' = NoCall
    /\ UNCHANGED <<minute_calls, hour_calls, last_call_time, rl_pc, rl_start, outsideRate>>
    /\ UNCHANGED enable_throttling

\* _calculate_wait_time, in milliseconds, on the deques as they are.
calculate_wait_time(minute, hour, last, now) ==
    IF Len(minute) >= MaxPerMinute
    THEN LET time_until_expire == (MinuteWindow - (now - Head(minute))) * 1000
             floored == IF time_until_expire > 100 THEN time_until_expire ELSE 100
         IN IF floored < 5000 THEN floored ELSE 5000
    ELSE IF Len(hour) >= MaxPerHour
    THEN LET time_until_expire == (HourWindow - (now - Head(hour))) * 1000
             floored == IF time_until_expire > 500 THEN time_until_expire ELSE 500
         IN IF floored < 60000 THEN floored ELSE 60000
    ELSE IF (now - last) * 1000 < DelayBetweenCallsMs
    THEN DelayBetweenCallsMs - (now - last) * 1000
    ELSE 100

\* time.sleep(wait_time) on a clock that counts whole seconds: the sleep ends
\* at the first whole second at which wait_time has passed.
SleepSeconds(wait_ms) == (wait_ms + 999) \div 1000

NoWait == [pc |-> "idle", start |-> 0, timeout |-> 0, slept_ms |-> 0, waits |-> 0,
           result |-> "none"]

\* wait_for_slot, lines 117-118: the call is entered.
WaitForSlotEnter(timeout) ==
    /\ rl_wait.pc = "idle"
    /\ rl_wait.result = "none"
    /\ rl_wait' = [NoWait EXCEPT !.pc = "check", !.start = clock, !.timeout = timeout]
    /\ UNCHANGED <<rateVars, storeVars, lazyVars, histVars, quoteVars,
                   writeVars, unitVars, plan_req, plan_gaps, conv_req, conv_out, retry>>

\* Lines 120-125 and 138-141: the loop condition should_throttle() and the
\* timeout test; the call returns True when the limiter does not throttle and
\* False when it throttles and more than timeout seconds have passed.
WaitForSlotCheck ==
    /\ rl_wait.pc = "check"
    /\ LET minute == IF enable_throttling
                     THEN PopOld(minute_calls, clock - MinuteWindow) ELSE minute_calls
           hour == IF enable_throttling
                   THEN PopOld(hour_calls, clock - HourWindow) ELSE hour_calls
           throttled == enable_throttling
                        /\ should_throttle(minute, hour, last_call_time, clock)
       IN /\ minute_calls' = minute
          /\ hour_calls' = hour
          /\ rl_last' = [op |-> "should_throttle", result |-> throttled]
          /\ rl_wait' =
                IF ~throttled THEN [rl_wait EXCEPT !.pc = "idle", !.result = "true"]
                ELSE IF clock - rl_wait.start > rl_wait.timeout
                THEN [rl_wait EXCEPT !.pc = "idle", !.result = "false"]
                ELSE [rl_wait EXCEPT !.pc = "sleep"]
    /\ UNCHANGED <<clock, last_call_time, rl_pc, rl_start, recorded, enable_throttling,
                   storeVars, lazyVars, histVars, quoteVars,
                   writeVars, unitVars, plan_req, plan_gaps, conv_req, conv_out, retry>>

\* Lines 128-136: the wait time is computed under the lock and the thread
\* sleeps for it; the time passes for every thread.
WaitForSlotSleep ==
    /\ rl_wait.pc = "sleep"
    /\ LET wait_ms == calculate_wait_time(minute_calls, hour_calls, last_call_time, clock)
       IN /\ clock + SleepSeconds(wait_ms) <= MaxClock
          /\ clock' = clock + SleepSeconds(wait_ms)
          /\ recorded' = WithinLastMinute(recorded, clock + SleepSeconds(wait_ms))
          /\ rl_wait' = [rl_wait EXCEPT !.pc = "check",
                                        !.slept_ms = rl_wait.slept_ms + wait_ms,
                                        !.waits = rl_wait.waits + 1]
    /\ rl_last' = NoCall
    /\ UNCHANGED <<minute_calls, hour_calls, last_call_time, rl_pc, rl_start,
                   enable_throttling, storeVars, lazyVars, histVars, quoteVars,
                   writeVars, unitVars, plan_req, plan_gaps, conv_req, conv_out, retry>>

\* record_call made by another thread at the current time.
OtherRecordCall ==
    /\ rl_wait.result = "none" \/ retry.pc \notin {"idle", "returned", "raised"}
    /\ Len(hour_calls) < MaxCalls
    /\ minute_calls' = PopOld(Append(minute_calls, clock), clock - MinuteWindow)
    /\ hour_calls' = PopOld(Append(hour_calls, clock), clock - HourWindow)
    /\ last_call_time' = clock
    /\ recorded' = Append(recorded, clock)
    /\ rl_last' = [op |-> "record_call", result |-> FALSE]
    /\ UNCHANGED <<clock, rl_pc, rl_start, enable_throttling, rl_wait,
                   storeVars, lazyVars, histVars, quoteVars,
                   writeVars, unitVars, plan_req, plan_gaps, conv_req, conv_out, retry>>

\* execute_with_rate_limit_retry: src/app/cache/rate_limit_protector.py 392-457.
\* An error is named by the number of the attempt that raised it; a result by
\* the number of the attempt whose invocation returned it.
NoRetry == [pc |-> "idle", max_retries |-> 0, attempt |-> 0, outcomes |-> <<>>,
            sleep_s |-> 0, last_error |-> 0, result |-> 0, raised |-> 0]

\* Line 413: the timeout handed to wait_for_slot.
RetryWaitTimeout == 30

\* parse_wait_time_from_error: the number of seconds found in the message, 15
\* when there is none.
parse_wait_time_from_error(seconds) == IF seconds = NULL THEN 15 ELSE seconds

\* adaptive_wait_for_rate_limit on a message in which a rate limit was
\* detected: the parsed time plus a buffer of 2 s.
adaptive_wait_for_rate_limit(seconds) == parse_wait_time_from_error(seconds) + 2

\* Line 450: min(2 ** attempt, 10).
Backoff(attempt) == IF 2 ^ attempt < 10 THEN 2 ^ attempt ELSE 10

\* Lines 436 and 448: a failed attempt is followed by another one.
MayRetry(attempt, max_retries) == attempt < max_retries

\* A loop in which a rate-limited attempt is not counted.
NextAttempt_RateLimitedFree(attempt, kind) ==
    IF kind = "error" THEN attempt + 1 ELSE attempt

\* Line 410: every turn of the for loop takes the next attempt number, whatever
\* the kind of failure of the last one.
NextAttempt(attempt, kind) == attempt + 1

\* Line 408: the call is entered.
RetryBegin(max_retries) ==
    /\ retry.pc = "idle"
    /\ retry' = [NoRetry EXCEPT !.pc = "wait", !.max_retries = max_retries]
    /\ UNCHANGED <<rateVars, storeVars, lazyVars, histVars, quoteVars,
                   writeVars, unitVars, plan_req, plan_gaps, conv_req, conv_out, rl_wait>>

\* Line 413: the attempt enters wait_for_slot(timeout=30).
RetryEnterWait ==
    /\ retry.pc = "wait"
    /\ retry' = [retry EXCEPT !.pc = "waiting"]
    /\ rl_wait' = [NoWait EXCEPT !.pc = "check", !.start = clock,
                                 !.timeout = RetryWaitTimeout]
    /\ UNCHANGED <<rateVars, storeVars, lazyVars, histVars, quoteVars,
                   writeVars, unitVars, plan_req, plan_gaps, conv_req, conv_out>>

\* Lines 413-455, after wait_for_slot has returned: a False makes the attempt
\* raise the timeout exception, whose message is taken for a rate limit and
\* holds no number; otherwise func is invoked and returns (ok), raises an error
\* whose message tells a rate limit and maybe a number of seconds
\* (rate_limited), or raises another error (error).  record_call follows a
\* result and an error of the last kind.
RetryInvoke(outcome, seconds) ==
    /\ retry.pc = "waiting"
    /\ rl_wait.pc = "idle"
    /\ rl_wait.result # "none"
    /\ LET got == IF rl_wait.result = "false" THEN "timeout" ELSE outcome
           n == retry.attempt + 1
           told == IF got = "timeout" THEN NULL ELSE seconds
           records == got \in {"ok", "error"}
           after == [retry EXCEPT !.outcomes = Append(retry.outcomes, got)]
       IN /\ retry' =
                IF got = "ok"
                THEN [after EXCEPT !.pc = "returned", !.result = n]
                ELSE IF MayRetry(retry.attempt, retry.max_retries)
                THEN [after EXCEPT !.pc = "sleep", !.last_error = n,
                                   !.sleep_s = IF got = "error"
                                               THEN Backoff(retry.attempt)
                                               ELSE adaptive_wait_for_rate_limit(told)]
                ELSE [after EXCEPT !.pc = "raised", !.last_error = n, !.raised = n]
          /\ minute_calls' = IF records
                             THEN PopOld(Append(minute_calls, clock), clock - MinuteWindow)
                             ELSE minute_calls
          /\ hour_calls' = IF records
                           THEN PopOld(Append(hour_calls, clock), clock - HourWindow)
                           ELSE hour_calls
          /\ last_call_time' = IF records THEN clock ELSE last_call_time
          /\ recorded' = IF records THEN Append(recorded, clock) ELSE recorded
          /\ rl_last' = IF records THEN [op |-> "record_call", result |-> FALSE]
                        ELSE rl_last
    /\ UNCHANGED <<clock, rl_pc, rl_start, enable_throttling, rl_wait,
                   storeVars, lazyVars, histVars, quoteVars,
                   writeVars, unitVars, plan_req, plan_gaps, conv_req, conv_out>>

\* Lines 438-439 and 452: the sleep before the next attempt, then the next
\* turn of the loop; line 457 raises the last error when the loop has ended.
RetrySleep ==
    /\ retry.pc = "sleep"
    /\ clock + retry.sleep_s <= MaxClock
    /\ clock' = clock + retry.sleep_s
    /\ recorded' = WithinLastMinute(recorded, clock + retry.sleep_s)
    /\ rl_last' = NoCall
    /\ LET kind == retry.outcomes[Len(retry.outcomes)]
           attempt == NextAttempt(retry.attempt, kind)
       IN retry' = IF attempt < retry.max_retries + 1
                   THEN [retry EXCEPT !.pc = "wait", !.attempt = attempt, !.sleep_s = 0]
                   ELSE [retry EXCEPT !.pc = "raised", !.attempt = attempt,
                                      !.sleep_s = 0, !.raised = retry.last_error]
    /\ UNCHANGED <<minute_calls, hour_calls, last_call_time, rl_pc, rl_start,
                   enable_throttling, rl_wait, storeVars, lazyVars, histVars, quoteVars,
                   writeVars, unitVars, plan_req, plan_gaps, conv_req, conv_out>>

RateIdle ==
    /\ minute_calls = <<>>
    /\ hour_calls = <<>>
    /\ last_call_time = 0
    /\ rl_pc = [c \in Clients |-> "idle"]
    /\ rl_start = [c \in Clients |-> 0]
    /\ recorded = <<>>
    /\ rl_last = NoCall

----------------------------------------------------------------------------
(* History read paths of the clients: src/app/clients/*.py *)

AssetTypes == {"STOCK", "FUND", "INDEX", "GOLD"}

\* The cache object each client holds: IndexClient.__init__ takes
\* get_historical_cache(), the legacy manager; the others take their own.
historical_cache_of(client) ==
    CASE client = "STOCK" -> "StockHistoricalCacheManager"
      [] client = "FUND" -> "FundHistoricalCacheManager"
      [] client = "GOLD" -> "GoldHistoricalCacheManager"
      [] client = "INDEX" -> "HistoricalCacheManager"

\* mark_date_range_as_fetched of a manager, called by one thread alone: the new
\* table and the returned count.
mark_date_range_as_fetched(manager, table, start_date, end_date) ==
    IF manager = "HistoricalCacheManager"
    THEN LET todo == dates_to_mark(table, start_date, end_date)
         IN [table |-> WritePlaceholders(table, todo), count |-> Cardinality(todo)]
    ELSE [table |-> table, count |-> 0]

\* calculate_missing_date_ranges: the missing dates are sorted and grouped
\* into runs of consecutive days.
RECURSIVE SortedDates(_)
SortedDates(dates) ==
    IF dates = {} THEN <<>>
    ELSE LET first == CHOOSE x \in dates : \A y \in dates : x <= y
         IN <<first>> \o SortedDates(dates \ {first})

RECURSIVE GroupRanges(_, _, _)
GroupRanges(rest, range_start, range_end) ==
    IF rest = <<>> THEN << <<range_start, range_end>> >>
    ELSE IF Head(rest) - range_end = 1
         THEN GroupRanges(Tail(rest), range_start, Head(rest))
         ELSE << <<range_start, range_end>> >>
              \o GroupRanges(Tail(rest), Head(rest), Head(rest))

\* The grouping without the coalescing of consecutive dates.
calculate_missing_date_ranges_Uncoalesced(start_date, end_date, cached_dates) ==
    LET missing_sorted == SortedDates((start_date..end_date) \ cached_dates)
    IN [i \in 1..Len(missing_sorted) |-> <<missing_sorted[i], missing_sorted[i]>>]

calculate_missing_date_ranges(start_date, end_date, cached_dates) ==
    LET missing_dates == (start_date..end_date) \ cached_dates
        missing_sorted == SortedDates(missing_dates)
    IN IF missing_dates = {} THEN <<>>
       ELSE GroupRanges(Tail(missing_sorted), Head(missing_sorted), Head(missing_sorted))

\* merge_historical_data: a dict keyed by date, later entries override, the
\* values sorted by date.
merge_historical_data(cached_records, new_records) ==
    LET both == cached_records \o new_records
        Has(d) == \E i \in 1..Len(both) : both[i].date = d
        Last(d) == both[CHOOSE i \in 1..Len(both) :
                            /\ both[i].date = d
                            /\ \A j \in (i + 1)..Len(both) : both[j].date # d]
    IN [k \in 1..Cardinality({d \in Dates : Has(d)}) |->
           Last(SortedDates({d \in Dates : Has(d)})[k])]

\* What the data provider answers to a request for [s, e]: rows of a date and
\* a price, NULL for NaN.  The provider is outside the service; it may answer
\* with the days asked for, nothing, days around the range, a day twice, the
\* days in descending order, or a row without prices.  It has rows for the
\* days of the calendar only.
ProviderKinds == {"exact", "empty", "wide", "dup", "desc", "nan"}

RECURSIVE DailyRows(_, _, _)
DailyRows(s, e, price) ==
    IF s > e THEN <<>>
    ELSE (IF s \in Dates THEN <<[date |-> s, price |-> price]>> ELSE <<>>)
         \o DailyRows(s + 1, e, price)

FirstDay(s) == IF s < 1 THEN 1 ELSE s

Reply(kind, s, e) ==
    CASE kind = "exact" -> DailyRows(s, e, 5)
      [] kind = "empty" -> <<>>
      [] kind = "wide" -> DailyRows(IF s > 1 THEN s - 1 ELSE s,
                                    IF e < MaxDate THEN e + 1 ELSE e, 5)
      [] kind = "dup" -> <<[date |-> FirstDay(s), price |-> 5],
                           [date |-> FirstDay(s), price |-> 7]>>
      [] kind = "desc" -> LET up == DailyRows(s, e, 5)
                          IN [i \in 1..Len(up) |-> up[Len(up) + 1 - i]]
      [] kind = "nan" -> <<[date |-> FirstDay(s), price |-> NULL]>>

\* _fetch_stock_history_raw: prices times 1000, NaN becomes 0.0, rows kept as
\* they come.
fetch_stock_history_raw(reply) ==
    [i \in 1..Len(reply) |->
        Dated(reply[i].date,
              FullBar(IF reply[i].price = NULL THEN 0 ELSE reply[i].price * 1000))]

\* _fetch_index_history_raw: NaN becomes 0.0, rows kept as they come.
fetch_index_history_raw(reply) ==
    [i \in 1..Len(reply) |->
        Dated(reply[i].date, FullBar(IF reply[i].price = NULL THEN 0 ELSE reply[i].price))]

\* market_time_utils.
is_weekday(day) == Weekday(day) < 5
is_friday(day) == Weekday(day) = 4
\* (weekday - 4) % 7 of the source, written without a negative operand.
get_latest_friday(day) == day - ((Weekday(day) + 3) % 7)
should_update_data(date, threshold_minutes, current_dt) ==
    current_dt - (date * 86400 + 86399) > threshold_minutes * 60

\* check_and_update_latest_data at the time current_dt, in seconds, day d
\* starting at d * 86400: the day to fetch again, or 0 for none.
check_and_update_latest_data(cached_data, current_dt) ==
    LET latest_record == cached_data[Len(cached_data)]
        now_day == current_dt \div 86400
    IN IF is_weekday(now_day)
       THEN IF should_update_data(latest_record.date, 30, current_dt) THEN now_day ELSE 0
       ELSE IF ~is_friday(latest_record.date) THEN get_latest_friday(now_day) ELSE 0

\* StockClient.get_stock_history.
get_stock_history(table, start_date, end_date, kind, current_dt) ==
    LET cached_data == get_cached_records(table, start_date, end_date)
    IN IF cached_data # <<>>
       THEN LET day == check_and_update_latest_data(cached_data, current_dt)
                fresh_data == fetch_stock_history_raw(Reply(kind, day, day))
            IN [table |-> IF day # 0 /\ fresh_data # <<>>
                          THEN store_historical_records(table, fresh_data) ELSE table,
                result |-> cached_data,
                calls |-> IF day # 0 THEN << <<day, day>> >> ELSE <<>>,
                marked |-> 0, recorded |-> 0, trigger |-> FALSE]
       ELSE LET fresh_data == fetch_stock_history_raw(Reply(kind, start_date, end_date))
            IN [table |-> IF fresh_data # <<>>
                          THEN store_historical_records(table, fresh_data) ELSE table,
                result |-> fresh_data,
                calls |-> << <<start_date, end_date>> >>,
                marked |-> 0, recorded |-> 0, trigger |-> FALSE]

\* IndexClient._get_index_history_incremental: the rows fetched for the gaps,
\* then the marks of the gaps one after the other.
RECURSIVE FetchGaps(_, _)
FetchGaps(missing_ranges, kinds) ==
    IF missing_ranges = <<>> THEN <<>>
    ELSE fetch_index_history_raw(Reply(Head(kinds), Head(missing_ranges)[1],
                                       Head(missing_ranges)[2]))
         \o FetchGaps(Tail(missing_ranges), Tail(kinds))

RECURSIVE MarkGaps(_, _, _)
MarkGaps(manager, acc, missing_ranges) ==
    IF missing_ranges = <<>> THEN acc
    ELSE LET m == mark_date_range_as_fetched(manager, acc.table, Head(missing_ranges)[1],
                                             Head(missing_ranges)[2])
         IN MarkGaps(manager, [table |-> m.table, count |-> acc.count + m.count],
                     Tail(missing_ranges))

get_index_history(table, start_date, end_date, kinds) ==
    LET cached_dates == get_cached_dates(table, start_date, end_date)
        missing_ranges == calculate_missing_date_ranges(start_date, end_date, cached_dates)
        all_new_records == FetchGaps(missing_ranges, kinds)
        stored == IF all_new_records # <<>>
                  THEN store_historical_records(table, all_new_records) ELSE table
        marks == MarkGaps(historical_cache_of("INDEX"), [table |-> stored, count |-> 0],
                          missing_ranges)
        cached_data == get_cached_records(marks.table, start_date, end_date)
    IN IF missing_ranges = <<>>
       THEN [table |-> table, result |-> get_cached_records(table, start_date, end_date),
             calls |-> <<>>, marked |-> 0, recorded |-> 0, trigger |-> FALSE]
       ELSE [table |-> marks.table,
             result |-> merge_historical_data(cached_data, all_new_records),
             calls |-> missing_ranges, marked |-> marks.count,
             recorded |-> Len(missing_ranges), trigger |-> FALSE]

\* Expected trading days of a range, and the two completeness tests.
ExpectedDays(start_date, end_date) ==
    Cardinality({d \in start_date..end_date : Weekday(d) < 5})

needs_lazy_fetch_hybrid(start_date, end_date, complete_records) ==
    IF complete_records # <<>>
    THEN \/ ExpectedDays(start_date, end_date) = 0
         \/ Len(complete_records) * 10 < 8 * ExpectedDays(start_date, end_date)
    ELSE TRUE

needs_lazy_fetch(start_date, end_date, cached_records) ==
    IF cached_records = <<>> THEN TRUE
    ELSE \/ ExpectedDays(start_date, end_date) = 0
         \/ Len(cached_records) * 10 < 6 * ExpectedDays(start_date, end_date)

\* FundClient._format_nav_records: every price field becomes nav, or close
\* when nav is 0.
format_nav_records(records) ==
    [i \in 1..Len(records) |->
        Dated(records[i].date,
              FullBar(IF records[i].nav # 0 THEN records[i].nav ELSE records[i].close))]

\* FundClient._get_fund_history_lazy_fetch; nav_report answers with the whole
\* history of the fund, the rows of the range are kept in the order they come.
InRange(records, start_date, end_date) ==
    LET Keep(r) == start_date <= r.date /\ r.date <= end_date
    IN SelectSeq(records, Keep)

get_fund_history_lazy_fetch(table, start_date, end_date, kind) ==
    LET cached_records == get_cached_records(table, start_date, end_date)
        reply == InRange(Reply(kind, 1, MaxDate), start_date, end_date)
        formatted_records ==
            [i \in 1..Len(reply) |->
                Dated(reply[i].date,
                      FullBar(IF reply[i].price = NULL THEN 0 ELSE reply[i].price))]
    IN IF ~needs_lazy_fetch_hybrid(start_date, end_date, cached_records)
       THEN [table |-> table, result |-> format_nav_records(cached_records),
             calls |-> <<>>, marked |-> 0, recorded |-> 0,
             trigger |-> needs_lazy_fetch(start_date, end_date, cached_records)]
       ELSE IF formatted_records # <<>>
       THEN [table |-> store_historical_records(table, formatted_records),
             result |-> formatted_records,
             calls |-> << <<1, MaxDate>> >>, marked |-> 0, recorded |-> 0,
             trigger |-> needs_lazy_fetch_hybrid(start_date, end_date, formatted_records)]
       ELSE [table |-> table, result |-> format_nav_records(cached_records),
             calls |-> << <<1, MaxDate>> >>, marked |-> 0, recorded |-> 0,
             trigger |-> needs_lazy_fetch(start_date, end_date, cached_records)]

\* GoldClient._apply_unit_conversion: every record gets the requested symbol,
\* and for a ".C" symbol the price fields it has, unless None, are divided by 10.
ConvertedFields == {"nav", "open", "high", "low", "close", "adjclose", "buy_price",
                    "sell_price"}

WithSymbol(record, sym) ==
    [f \in DOMAIN record \cup {"symbol"} |-> IF f = "symbol" THEN sym ELSE record[f]]

\* The conversion applied to the volume as well.
apply_unit_conversion_AllFields(records, per_chi) ==
    [i \in 1..Len(records) |->
        IF per_chi
        THEN [f \in DOMAIN records[i] |->
                 IF f # "date" THEN records[i][f] \div 10 ELSE records[i][f]]
        ELSE records[i]]

apply_unit_conversion(records, per_chi) ==
    [i \in 1..Len(records) |->
        IF per_chi
        THEN WithSymbol([f \in DOMAIN records[i] |->
                            IF f \in ConvertedFields /\ records[i][f] # NULL
                            THEN records[i][f] \div 10 ELSE records[i][f]],
                        "VN.GOLD.C")
        ELSE WithSymbol(records[i], "VN.GOLD")]

\* GoldClient._get_history_lazy_fetch.
get_history_lazy_fetch(table, start_date, end_date, per_chi) ==
    LET cached_records == get_cached_records(table, start_date, end_date)
    IN [table |-> table, result |-> apply_unit_conversion(cached_records, per_chi),
        calls |-> <<>>, marked |-> 0, recorded |-> 0,
        trigger |-> needs_lazy_fetch(start_date, end_date, cached_records)]

\* trigger_lazy_fetch as a request thread runs it, lock section and thread
\* start, when the request asks for it.
TriggerFromRequest(trigger, fetch_key) ==
    IF trigger /\ ~IsDuplicate(fetch_key, active_fetches)
    THEN /\ active_fetches' = active_fetches \cup {fetch_key}
         /\ fetch_status' = queue_fetch_status(fetch_status, fetch_key)
         /\ \E w \in WorkerSlots :
               /\ worker[w] = NoWorker
               /\ \A v \in WorkerSlots : v < w => worker[v] # NoWorker
               /\ worker' = [worker EXCEPT ![w] =
                                [pc |-> "start", key |-> fetch_key,
                                 chunks |-> <<>>, i |-> 0]]
    ELSE UNCHANGED <<active_fetches, fetch_status, worker>>

\* n record_call invocations by a request thread at the current time, the
\* limiter having room for them.
RecordCalls(n) ==
    LET stamps == [i \in 1..n |-> clock]
    IN /\ Len(hour_calls) + n <= MaxPerHour
       /\ minute_calls' = PopOld(minute_calls \o stamps, clock - MinuteWindow)
       /\ hour_calls' = PopOld(hour_calls \o stamps, clock - HourWindow)
       /\ last_call_time' = IF n > 0 THEN clock ELSE last_call_time
       /\ recorded' = recorded \o stamps
       /\ rl_last' = IF n > 0 THEN [op |-> "record_call", result |-> FALSE] ELSE rl_last

\* One history request served from start to end by the client of asset_type:
\* get_stock_history, get_index_history, get_fund_nav_history or
\* get_gold_history, with the trigger_lazy_fetch and record_call calls it makes.
ServeHistory(start_date, end_date, kinds, per_chi) ==
    /\ \E out \in {CASE asset_type = "STOCK" ->
                         get_stock_history(historical_records, start_date, end_date,
                                           kinds[1], clock)
                    [] asset_type = "INDEX" ->
                         get_index_history(historical_records, start_date, end_date, kinds)
                    [] asset_type = "FUND" ->
                         get_fund_history_lazy_fetch(historical_records, start_date,
                                                     end_date, kinds[1])
                    [] asset_type = "GOLD" ->
                         get_history_lazy_fetch(historical_records, start_date, end_date,
                                                per_chi)} :
          /\ historical_records' = out.table
          /\ hist_req' = <<start_date, end_date, per_chi>>
          /\ hist_result' = out.result
          /\ hist_calls' = out.calls
          /\ hist_marked' = out.marked
          /\ hist_n' = IF hist_n = 1 /\ hist_req = <<start_date, end_date, per_chi>>
                       THEN 2 ELSE 1
          /\ TriggerFromRequest(out.trigger, <<start_date, end_date>>)
          /\ RecordCalls(out.recorded)
    /\ UNCHANGED <<asset_type, trigger_pc, mark_pc, mark_dates, clock, rl_pc, rl_start,
                   quoteVars>>
    /\ UNCHANGED enable_throttling

GetHistory(start_date, end_date, kinds, per_chi) ==
    /\ start_date <= end_date
    /\ end_date <= today
    /\ ServeHistory(start_date, end_date, kinds, per_chi)
    /\ UNCHANGED pureVars

\* A date string that datetime.strptime(..., "%Y-%m-%d") refuses.
MalformedDate == NULL - 1

NoRequest == [n |-> 0, start_date |-> 0, end_date |-> 0, today |-> 0, status |-> 0,
              detail |-> "none", history |-> <<>>]

\* GET /history/{symbol} (main.py 754-823) for the symbol whose table is
\* historical_records. The gold client is tried first, any exception of it
\* passed over; then the route of the symbol's kind is called, a symbol that
\* is neither index nor fund going to the stock route. Each of these routes
\* parses the two dates (400 when strptime refuses one), asks its client and
\* answers 404 when the client has nothing. With a refused date the gold
\* client, for a gold symbol, either finds rows by string comparison and
\* fails in _needs_lazy_fetch, or finds none and triggers a lazy fetch on the
\* strings as they are; it answers with no record in both cases.
GetHistoryRoute(start_date, end_date, kinds, per_chi, matched) ==
    IF start_date = MalformedDate \/ end_date = MalformedDate
    THEN /\ IF asset_type = "GOLD"
            THEN TriggerFromRequest(~matched, <<start_date, end_date>>)
            ELSE UNCHANGED <<active_fetches, fetch_status, worker>>
         /\ hreq' = [n |-> hreq.n + 1, start_date |-> start_date,
                     end_date |-> end_date, today |-> today, status |-> 400,
                     detail |-> "Invalid date format. Use YYYY-MM-DD",
                     history |-> <<>>]
         /\ UNCHANGED <<historical_records, mark_pc, mark_dates, trigger_pc, rateVars,
                        histVars, quoteVars, outsideRoute>>
    ELSE /\ start_date <= end_date
         /\ ServeHistory(start_date, end_date, kinds, per_chi)
         /\ hreq' = [n |-> hreq.n + 1, start_date |-> start_date,
                     end_date |-> end_date, today |-> today,
                     status |-> IF hist_result' # <<>> THEN 200 ELSE 404,
                     detail |-> IF hist_result' # <<>> THEN "none"
                                ELSE "No history found",
                     history |-> hist_result']
         /\ UNCHANGED outsideRoute

\* A day passes.
AdvanceDay ==
    /\ today < MaxDate
    /\ clock' = clock + 86400
    /\ rl_last' = NoCall
    /\ hist_n' = 0
    /\ UNCHANGED <<asset_type, hist_req, hist_result, hist_calls, hist_marked,
                   minute_calls, hour_calls, last_call_time, rl_pc, rl_start, recorded,
                   storeVars, lazyVars, quoteVars, pureVars>>
    /\ UNCHANGED enable_throttling

HistIdle ==
    /\ asset_type = "STOCK"
    /\ hist_req = <<0, 0, FALSE>>
    /\ hist_result = <<>>
    /\ hist_calls = <<>>
    /\ hist_marked = 0
    /\ hist_n = 0

----------------------------------------------------------------------------
(* Quote caches and latest-quote paths: src/app/cache/memory_cache.py,       *)
(* cache_manager.py, quote_ttl_manager.py, clients/stock_client.py,         *)
(* clients/fund_client.py                                                   *)

FundTTL == 86400
StockTTL == 3600
DefaultTTL == 3600
LookbackDays == 30

get_ttl_for_asset(atype) ==
    CASE atype = "FUND" -> FundTTL
      [] atype = "STOCK" -> StockTTL
      [] OTHER -> DefaultTTL

\* None, as a quote.
NoQuote == Dated(0, FullBar(NULL))
NoQuoteRow == [value |-> NoQuote, expires_at |-> 0]

\* MemoryCache.get with the expiry test passing at the expiry time itself.
memory_get_AtExpiry(cache, key, now) ==
    LET Other(e) == e.key # key
    IN IF \E i \in 1..Len(cache) : cache[i].key = key
       THEN LET i == CHOOSE j \in 1..Len(cache) : cache[j].key = key
            IN IF now <= cache[i].expires_at
               THEN [cache |-> [cache EXCEPT ![i].accessed_at = now],
                     value |-> cache[i].value]
               ELSE [cache |-> SelectSeq(cache, Other), value |-> NoQuote]
       ELSE [cache |-> cache, value |-> NoQuote]

\* MemoryCache.get: a live entry is returned and its access time updated, an
\* expired one is removed.
memory_get(cache, key, now) ==
    LET Other(e) == e.key # key
    IN IF \E i \in 1..Len(cache) : cache[i].key = key
       THEN LET i == CHOOSE j \in 1..Len(cache) : cache[j].key = key
            IN IF now < cache[i].expires_at
               THEN [cache |-> [cache EXCEPT ![i].accessed_at = now],
                     value |-> cache[i].value]
               ELSE [cache |-> SelectSeq(cache, Other), value |-> NoQuote]
       ELSE [cache |-> cache, value |-> NoQuote]

\* MemoryCache._evict_lru: the max(1, len // 10) entries accessed longest ago
\* leave, the sort being stable on dict order.
RECURSIVE EvictOldest(_, _)
EvictOldest(cache, evict_count) ==
    IF evict_count = 0 \/ cache = <<>> THEN cache
    ELSE LET i == CHOOSE j \in 1..Len(cache) :
                      \A k \in 1..Len(cache) :
                          \/ cache[k].accessed_at > cache[j].accessed_at
                          \/ (cache[k].accessed_at = cache[j].accessed_at /\ k >= j)
         IN EvictOldest([k \in 1..(Len(cache) - 1) |->
                            IF k < i THEN cache[k] ELSE cache[k + 1]],
                        evict_count - 1)

\* The eviction taking one entry whatever the size of the cache.
evict_lru_One(cache) == EvictOldest(cache, 1)

evict_lru(cache) ==
    EvictOldest(cache, IF Len(cache) \div 10 > 1 THEN Len(cache) \div 10 ELSE 1)

\* MemoryCache.set on a cache of the given max_size: eviction when the cache
\* is full, then the entry is written in place or appended. room is the cache
\* between the two.
cache_set(cache, max_size, key, value, ttl, now) ==
    LET room == IF Len(cache) >= max_size THEN evict_lru(cache) ELSE cache
        entry == [key |-> key, value |-> value, expires_at |-> now + ttl,
                  accessed_at |-> now]
    IN [room |-> room,
        cache |-> IF \E i \in 1..Len(room) : room[i].key = key
                  THEN [i \in 1..Len(room) |-> IF room[i].key = key THEN entry
                                                ELSE room[i]]
                  ELSE Append(room, entry)]

memory_set(cache, key, value, ttl, now) ==
    cache_set(cache, MemMaxSize, key, value, ttl, now).cache

\* CacheManager.get_quote / set_quote on the row of the symbol.
persistent_get(row, now) == IF row.expires_at > now THEN row.value ELSE NoQuote
persistent_set(value, ttl_seconds, now) == [value |-> value, expires_at |-> now + ttl_seconds]

\* get_most_recent_record: the latest row of the last lookback_days days whose
\* data_json is not '{}' (a NULL data_json does not pass the comparison).
get_most_recent_record(table, now_day, lookback_days) ==
    LET found == {d \in Dates : /\ now_day - lookback_days <= d
                                /\ d <= now_day
                                /\ table[d] # NoRow
                                /\ table[d].data_json = "json"}
    IN IF found = {} THEN NoQuote
       ELSE LET d == CHOOSE x \in found : \A y \in found : y <= x
            IN Dated(d, table[d])

\* What the quote provider answers: a price, nothing, or an exception.
ProviderQuotes == {<<"ok", 5>>, <<"ok", 7>>, <<"empty", 0>>, <<"raise", 0>>}

\* The quote is written to both caches with the TTL of the asset type.
CacheQuote(atype, cache, value, now) ==
    [memory |-> memory_set(cache, "S", value, get_ttl_for_asset(atype), now),
     row |-> persistent_set(value, get_ttl_for_asset(atype), now)]

\* StockClient.get_latest_quote and FundClient.get_latest_nav from the
\* provider call on, after both caches missed.
quote_from_provider(atype, cache, row, table, now, answer, kind) ==
    LET now_day == now \div 86400
        recent_record == get_most_recent_record(table, now_day, LookbackDays)
        history == IF atype = "STOCK"
                   THEN get_stock_history(table, now_day - 7, now_day, kind, now)
                   ELSE get_fund_history_lazy_fetch(table, now_day - 7, now_day, kind)
        most_recent == history.result[Len(history.result)]
        quote_data == Dated(now_day, FullBar(IF atype = "STOCK" THEN answer[2] * 1000
                                             ELSE answer[2]))
        unchanged == [memory |-> cache, row |-> row]
        after_call == IF atype = "STOCK" /\ answer[1] # "raise" THEN 1 ELSE 0
    IN IF atype = "FUND" /\ answer[1] = "raise"
       THEN [caches |-> unchanged, table |-> table, result |-> NoQuote,
             recorded |-> 0, trigger |-> FALSE, source |-> "none"]
       ELSE IF answer[1] # "ok"
       THEN IF recent_record # NoQuote
            THEN [caches |-> CacheQuote(atype, cache, recent_record, now),
                  table |-> table, result |-> recent_record,
                  recorded |-> after_call, trigger |-> FALSE, source |-> "recent"]
            ELSE IF history.result # <<>>
            THEN [caches |-> CacheQuote(atype, cache, most_recent, now),
                  table |-> history.table, result |-> most_recent,
                  recorded |-> after_call, trigger |-> history.trigger,
                  source |-> "week"]
            ELSE [caches |-> unchanged, table |-> history.table, result |-> NoQuote,
                  recorded |-> after_call, trigger |-> history.trigger,
                  source |-> "none"]
       ELSE [caches |-> CacheQuote(atype, cache, quote_data, now), table |-> table,
             result |-> quote_data,
             recorded |-> IF atype = "STOCK" THEN 2 ELSE 0,
             trigger |-> FALSE, source |-> "provider"]

\* The cache tiers in front of the provider: memory, then the quotes table,
\* whose hit is written back to memory with a TTL counted from now.
get_latest_quote(atype, cache, row, table, now, answer, kind) ==
    LET m == memory_get(cache, "S", now)
        cached_quote == persistent_get(row, now)
    IN IF m.value # NoQuote
       THEN [caches |-> [memory |-> m.cache, row |-> row], table |-> table,
             result |-> m.value, recorded |-> 0, trigger |-> FALSE,
             source |-> "memory"]
       ELSE IF cached_quote # NoQuote
       THEN [caches |-> [memory |-> memory_set(m.cache, "S", cached_quote,
                                               get_ttl_for_asset(atype), now),
                         row |-> row],
             table |-> table, result |-> cached_quote, recorded |-> 0,
             trigger |-> FALSE, source |-> "persistent"]
       ELSE quote_from_provider(atype, m.cache, row, table, now, answer, kind)

\* One quote request for the symbol.
GetQuote(answer, kind) ==
    /\ \E out \in {get_latest_quote(asset_type, quote_memory, quote_row,
                                    historical_records, clock, answer, kind)} :
          /\ quote_memory' = out.caches.memory
          /\ quote_row' = out.caches.row
          /\ historical_records' = out.table
          /\ q_last' = [at |-> clock,
                        t0 |-> IF quote_row = NoQuoteRow THEN NULL
                               ELSE quote_row.expires_at - get_ttl_for_asset(asset_type),
                        stored |-> quote_row.value,
                        had_real |-> \E d \in Dates : /\ today - LookbackDays <= d
                                                      /\ d <= today
                                                      /\ IsReal(historical_records[d]),
                        result |-> out.result,
                        source |-> out.source,
                        answer |-> IF out.source \in {"memory", "persistent"}
                                   THEN "unasked" ELSE answer[1]]
          /\ TriggerFromRequest(out.trigger, <<today - 7, today>>)
          /\ RecordCalls(out.recorded)
    /\ hist_n' = 0
    /\ UNCHANGED <<histObs, trigger_pc, mark_pc, mark_dates, clock, rl_pc, rl_start,
                   pureVars>>
    /\ UNCHANGED enable_throttling

\* The quote of another symbol is put into the QuoteCache.
OtherQuote ==
    /\ quote_memory' = memory_set(quote_memory, "O", Dated(today, FullBar(5)),
                                  get_ttl_for_asset(asset_type), clock)
    /\ UNCHANGED <<quote_row, q_last, storeVars, lazyVars, rateVars, histVars, pureVars>>

\* Half a TTL passes.
QuoteTick ==
    /\ clock + get_ttl_for_asset(asset_type) \div 2
         <= 86400 + MaxQuoteTicks * (get_ttl_for_asset(asset_type) \div 2)
    /\ clock' = clock + get_ttl_for_asset(asset_type) \div 2
    /\ rl_last' = NoCall
    /\ UNCHANGED <<minute_calls, hour_calls, last_call_time, rl_pc, rl_start, recorded,
                   storeVars, lazyVars, histVars, quoteVars, pureVars>>
    /\ UNCHANGED enable_throttling

\* GoldClient._get_latest_from_database: the row of the greatest date, whatever
\* its data_json, with the fields the SELECT reads.
get_latest_from_database(table) ==
    LET found == {d \in Dates : table[d] # NoRow}
    IN IF found = {} THEN NoQuote
       ELSE LET d == CHOOSE x \in found : \A y \in found : y <= x
            IN Dated(d, table[d])

\* GoldClient.get_latest_quote: the historical table first, then memory, the
\* quotes table, the provider and the fallbacks of the provider; per_chi
\* tells that the symbol asked for is VN.GOLD.C. The last-week fallback asks
\* get_gold_history with the symbol as requested.
gold_get_latest_quote(cache, row, table, now, answer, per_chi) ==
    LET now_day == now \div 86400
        latest_db == get_latest_from_database(table)
        days_old == now_day - latest_db.date
        m == memory_get(cache, "S", now)
        cached_quote == persistent_get(row, now)
        sjc_quote == [Dated(now_day, FullBar(answer[2])) EXCEPT !.nav = NULL]
        recent_record == get_most_recent_record(table, now_day, LookbackDays)
        history == get_history_lazy_fetch(table, now_day - 7, now_day, per_chi)
        Final(quote_data) == apply_unit_conversion(<<quote_data>>, per_chi)[1]
        Cached(quote_data, c) == CacheQuote("GOLD", c, Final(quote_data), now)
    IN IF latest_db # NoQuote /\ days_old <= 1
       THEN [caches |-> Cached(latest_db, cache), table |-> table,
             result |-> Final(latest_db), recorded |-> 0, trigger |-> FALSE,
             source |-> "database"]
       ELSE IF m.value # NoQuote
       THEN [caches |-> [memory |-> m.cache, row |-> row], table |-> table,
             result |-> m.value, recorded |-> 0, trigger |-> FALSE,
             source |-> "memory"]
       ELSE IF cached_quote # NoQuote
       THEN [caches |-> [memory |-> memory_set(m.cache, "S", cached_quote,
                                               get_ttl_for_asset("GOLD"), now),
                         row |-> row],
             table |-> table, result |-> cached_quote, recorded |-> 0,
             trigger |-> FALSE, source |-> "persistent"]
       ELSE IF answer[1] = "ok"
       THEN [caches |-> Cached(sjc_quote, m.cache), table |-> table,
             result |-> Final(sjc_quote), recorded |-> 1, trigger |-> FALSE,
             source |-> "provider"]
       ELSE IF recent_record # NoQuote
       THEN [caches |-> Cached(recent_record, m.cache), table |-> table,
             result |-> Final(recent_record), recorded |-> 0, trigger |-> FALSE,
             source |-> "recent"]
       ELSE IF history.result # <<>>
       THEN [caches |-> Cached(history.result[Len(history.result)], m.cache),
             table |-> table,
             result |-> Final(history.result[Len(history.result)]),
             recorded |-> 0, trigger |-> history.trigger, source |-> "week"]
       ELSE [caches |-> [memory |-> m.cache, row |-> row], table |-> table,
             result |-> NoQuote, recorded |-> 0, trigger |-> history.trigger,
             source |-> "none"]

\* One quote request for the gold symbol.
GetGoldQuote(answer, per_chi) ==
    /\ asset_type = "GOLD"
    /\ \E out \in {gold_get_latest_quote(quote_memory, quote_row, historical_records,
                                         clock, answer, per_chi)} :
          /\ quote_memory' = out.caches.memory
          /\ quote_row' = out.caches.row
          /\ historical_records' = out.table
          /\ q_last' = [at |-> clock,
                        t0 |-> IF quote_row = NoQuoteRow THEN NULL
                               ELSE quote_row.expires_at - get_ttl_for_asset("GOLD"),
                        stored |-> quote_row.value,
                        had_real |-> \E d \in Dates : /\ today - LookbackDays <= d
                                                      /\ d <= today
                                                      /\ IsReal(historical_records[d]),
                        result |-> out.result,
                        source |-> out.source,
                        answer |-> IF out.source \in {"provider", "recent", "week", "none"}
                                   THEN answer[1] ELSE "unasked"]
          /\ TriggerFromRequest(out.trigger, <<today - 7, today>>)
          /\ RecordCalls(out.recorded)
    /\ hist_n' = 0
    /\ UNCHANGED <<histObs, trigger_pc, mark_pc, mark_dates, clock, rl_pc, rl_start,
                   pureVars>>
    /\ UNCHANGED enable_throttling

\* Half a TTL of the gold quote passes, a few times a day.
GoldQuoteTick ==
    /\ asset_type = "GOLD"
    /\ (clock % 86400) + (DefaultTTL \div 2) <= MaxQuoteTicks * (DefaultTTL \div 2)
    /\ clock' = clock + DefaultTTL \div 2
    /\ rl_last' = NoCall
    /\ UNCHANGED <<minute_calls, hour_calls, last_call_time, rl_pc, rl_start, recorded,
                   storeVars, lazyVars, histVars, quoteVars, pureVars>>
    /\ UNCHANGED enable_throttling

\* The MemoryCache studied alone. No call made yet:
NoMemCall == [op |-> "none", key |-> 0, at |-> 0, before |-> <<>>, room |-> <<>>,
              value |-> NoQuote, hits |-> 0, misses |-> 0]

ProbeKeys == {1, 2, LargeSize + 1}
\* What the set calls write: a value and its ttl.
MemWrites == {<<Dated(1, FullBar(5)), 1>>, <<Dated(1, FullBar(7)), 2>>}

\* cache.get(key): the _hits or the _misses counter moves with the answer.
MemGet(key) ==
    /\ mem.calls < MaxMemCalls
    /\ \E g \in {memory_get(mem.cache, key, mem.now)} :
          mem' = [mem EXCEPT
                     !.cache = g.cache,
                     !.calls = mem.calls + 1,
                     !.hits = IF g.value # NoQuote THEN mem.hits + 1 ELSE mem.hits,
                     !.misses = IF g.value # NoQuote THEN mem.misses ELSE mem.misses + 1,
                     !.last = [op |-> "get", key |-> key, at |-> mem.now,
                               before |-> mem.cache, room |-> g.cache,
                               value |-> g.value, hits |-> mem.hits,
                               misses |-> mem.misses]]
    /\ UNCHANGED exceptMem

\* cache.set(key, value, ttl).
MemSet(key, value, ttl) ==
    /\ mem.calls < MaxMemCalls
    /\ \E s \in {cache_set(mem.cache, mem.max_size, key, value, ttl, mem.now)} :
          mem' = [mem EXCEPT
                     !.cache = s.cache,
                     !.calls = mem.calls + 1,
                     !.last = [op |-> "set", key |-> key, at |-> mem.now,
                               before |-> mem.cache, room |-> s.room,
                               value |-> value, hits |-> mem.hits,
                               misses |-> mem.misses]]
    /\ UNCHANGED exceptMem

\* MemoryCache.delete: _remove_key.
memory_delete(cache, key) ==
    LET Other(e) == e.key # key
    IN SelectSeq(cache, Other)

\* MemoryCache.cleanup_expired: the entries at or past their expiry go.
cleanup_expired(cache, now) ==
    LET Live(e) == now < e.expires_at
    IN SelectSeq(cache, Live)

\* cache.delete(key).
MemDelete(key) ==
    /\ mem.calls < MaxMemCalls
    /\ mem' = [mem EXCEPT
                  !.cache = memory_delete(mem.cache, key),
                  !.calls = mem.calls + 1,
                  !.last = [op |-> "delete", key |-> key, at |-> mem.now,
                            before |-> mem.cache,
                            room |-> memory_delete(mem.cache, key),
                            value |-> NoQuote, hits |-> mem.hits,
                            misses |-> mem.misses]]
    /\ UNCHANGED exceptMem

\* cache.cleanup_expired().
MemCleanupExpired ==
    /\ mem.calls < MaxMemCalls
    /\ mem' = [mem EXCEPT
                  !.cache = cleanup_expired(mem.cache, mem.now),
                  !.calls = mem.calls + 1,
                  !.last = [op |-> "cleanup_expired", key |-> 0, at |-> mem.now,
                            before |-> mem.cache,
                            room |-> cleanup_expired(mem.cache, mem.now),
                            value |-> NoQuote, hits |-> mem.hits,
                            misses |-> mem.misses]]
    /\ UNCHANGED exceptMem

\* A second passes.
MemTick ==
    /\ mem.now < MaxMemTime
    /\ mem' = [mem EXCEPT !.now = mem.now + 1]
    /\ UNCHANGED exceptMem

\* A cache nothing has been put into.
MemIdle == [cache |-> <<>>, max_size |-> SmallSize, now |-> 1, hits |-> 0,
            misses |-> 0, calls |-> 0, last |-> NoMemCall]

QuoteIdle ==
    /\ quote_memory = <<>>
    /\ quote_row = NoQuoteRow
    /\ q_last = [at |-> 0, t0 |-> NULL, stored |-> NoQuote, had_real |-> FALSE,
                 result |-> NoQuote, source |-> "none", answer |-> "unasked"]

----------------------------------------------------------------------------
(* The component locks and the calls that take them *)

\* A thread outside every call.
NoLockCall == [op |-> "none", pc |-> "idle", held |-> <<>>, want |-> "none"]

\* The lock a call takes first: the store's _lock (historical_cache.py 66),
\* the global limiter's (rate_limit_protector.py 79 and 150), the MemoryCache's
\* (memory_cache.py 31 and 48), the LazyFetchManager's (lazy_fetch_manager.py
\* 53), the IPRateLimiter's (ip_rate_limiter.py 73).
FirstLock(op) ==
    CASE op = "store_historical_records" -> "store"
      [] op = "should_throttle" -> "limiter"
      [] op = "record_call" -> "limiter"
      [] op = "memory_get" -> "memory"
      [] op = "memory_set" -> "memory"
      [] op = "trigger_lazy_fetch" -> "lazy"
      [] op = "check_ip_rate_limit" -> "ip"

LockOps == {"store_historical_records", "should_throttle", "record_call",
            "memory_get", "memory_set", "trigger_lazy_fetch", "check_ip_rate_limit"}

\* The thread that holds a lock, as a set.
Holders(lock) ==
    {t \in LockThreads : \E i \in 1..Len(lock_thr[t].held) : lock_thr[t].held[i] = lock}

\* A thread enters one of the calls and reaches its "with self._lock".
LockCall(t, op) ==
    /\ lock_thr[t].pc = "idle"
    /\ lock_thr' = [lock_thr EXCEPT ![t] = [op |-> op, pc |-> "wait", held |-> <<>>,
                                            want |-> FirstLock(op)]]
    /\ UNCHANGED exceptLock

\* The lock the thread waits for is free (or, the locks of the limiters and of
\* the MemoryCache being RLocks, its own) and is taken.
LockAcquire(t) ==
    /\ lock_thr[t].want # "none"
    /\ Holders(lock_thr[t].want) \subseteq {t}
    /\ lock_thr' = [lock_thr EXCEPT ![t].held = Append(lock_thr[t].held, lock_thr[t].want),
                                    ![t].want = "none",
                                    ![t].pc = IF lock_thr[t].pc = "wait" THEN "in"
                                              ELSE "inner"]
    /\ UNCHANGED exceptLock

\* check_ip_rate_limit, line 83, inside the IPRateLimiter's lock section:
\* ip_limiter.should_throttle() takes the _lock of the RateLimitProtector of
\* the address (rate_limit_protector.py 79).
IpShouldThrottle(t) ==
    /\ lock_thr[t].op = "check_ip_rate_limit"
    /\ lock_thr[t].pc = "in"
    /\ lock_thr' = [lock_thr EXCEPT ![t].pc = "wait_inner", ![t].want = "ip_limiter"]
    /\ UNCHANGED exceptLock

\* The end of a "with self._lock" block: the lock taken last is left; the call
\* returns when none is held any more.
LockRelease(t) ==
    /\ lock_thr[t].want = "none"
    /\ \/ lock_thr[t].pc = "inner"
       \/ lock_thr[t].pc = "out"
       \/ (lock_thr[t].pc = "in" /\ lock_thr[t].op # "check_ip_rate_limit")
    /\ lock_thr' = [lock_thr EXCEPT ![t] =
                       IF Len(lock_thr[t].held) = 1 THEN NoLockCall
                       ELSE [lock_thr[t] EXCEPT
                                !.held = SubSeq(lock_thr[t].held, 1,
                                                Len(lock_thr[t].held) - 1),
                                !.pc = "out"]]
    /\ UNCHANGED exceptLock

----------------------------------------------------------------------------
(* Background tasks and shutdown: src/app/cache/background_manager.py *)

\* __init__: nothing runs. signalled and in_flight keep, per lazy-fetch worker,
\* the chunk it was fetching when stop_background_tasks set _running to False;
\* waits counts the one-second waits the cleanup thread began since then.
\* older keeps the cleanup threads started by earlier start_background_tasks
\* calls, which _cleanup_thread no longer refers to.
BgIdle == [running |-> FALSE, signalled |-> FALSE, refresh |-> "none",
           cleanup |-> "none", left |-> 0, waits |-> 0,
           in_flight |-> [w \in WorkerSlots |-> 0], older |-> <<>>]

\* start_background_tasks, at startup: the refresh task is created and the
\* cleanup thread started.
StartBackgroundTasks ==
    /\ ~bg.running
    /\ ~bg.signalled
    /\ bg' = [bg EXCEPT !.running = TRUE, !.refresh = "created", !.cleanup = "check"]
    /\ UNCHANGED exceptBg

\* start_background_tasks called again after stop_background_tasks: _running
\* is False, so a new refresh task is created (the one before was cancelled
\* and awaited by the stop) and a new cleanup thread is started; the thread
\* started before is neither joined nor looked at.
RestartBackgroundTasks ==
    /\ ~bg.running
    /\ bg.signalled
    /\ Len(bg.older) < MaxRestarts
    /\ bg' = [bg EXCEPT !.running = TRUE, !.signalled = FALSE, !.waits = 0,
                        !.refresh = "created", !.cleanup = "check", !.left = 0,
                        !.older = Append(bg.older, [pc |-> bg.cleanup, left |-> bg.left])]
    /\ UNCHANGED exceptBg

\* stop_background_tasks: _running is cleared and the refresh task, which can
\* only be suspended in a sleep or not yet started, is cancelled and awaited.
StopBackgroundTasks ==
    /\ bg.running
    /\ bg' = [bg EXCEPT !.running = FALSE, !.signalled = TRUE,
                        !.refresh = "cancelled",
                        !.in_flight = [w \in WorkerSlots |->
                                          IF worker[w].pc = "chunk" THEN worker[w].i
                                          ELSE 0]]
    /\ UNCHANGED exceptBg

\* _periodic_cache_refresh: one pass of the loop up to its sleep, which the
\* coroutine runs without yielding.
RefreshPass ==
    /\ bg.refresh \in {"created", "sleeping"}
    /\ bg' = [bg EXCEPT !.refresh = IF bg.running THEN "sleeping" ELSE "done"]
    /\ UNCHANGED exceptBg

\* _periodic_cleanup, the test of the while loop.
CleanupCheck ==
    /\ bg.cleanup = "check"
    /\ bg' = [bg EXCEPT !.cleanup = IF bg.running THEN "work" ELSE "done"]
    /\ UNCHANGED exceptBg

\* Lines 169-170, the cleanup itself, which succeeds or raises; the sleep
\* that follows counts CleanupSleepSteps or ErrorSleepSteps seconds.
CleanupWork(raised) ==
    /\ bg.cleanup = "work"
    /\ bg' = [bg EXCEPT !.cleanup = "sleep",
                        !.left = IF raised THEN ErrorSleepSteps ELSE CleanupSleepSteps]
    /\ UNCHANGED exceptBg

\* Lines 173-176 and 181-184, the head of the sleep loop: out of seconds or
\* _running cleared, back to the while test; otherwise into the wait.
CleanupSleepCheck ==
    /\ bg.cleanup = "sleep"
    /\ bg' = IF bg.left = 0 \/ ~bg.running
             THEN [bg EXCEPT !.cleanup = "check"]
             ELSE [bg EXCEPT !.cleanup = "wait",
                             !.waits = IF bg.signalled THEN bg.waits + 1 ELSE bg.waits]
    /\ UNCHANGED exceptBg

\* threading.Event().wait(1) returns.
CleanupWait ==
    /\ bg.cleanup = "wait"
    /\ bg' = [bg EXCEPT !.cleanup = "sleep", !.left = bg.left - 1]
    /\ UNCHANGED exceptBg

\* One step of _periodic_cleanup in a thread started by an earlier start: the
\* while test, the cleanup, the head of the sleep loop or the end of a wait.
OlderCleanupStep(i, raised) ==
    /\ i \in 1..Len(bg.older)
    /\ LET t == bg.older[i]
           next == CASE t.pc = "check" ->
                          [pc |-> IF bg.running THEN "work" ELSE "done", left |-> t.left]
                     [] t.pc = "work" ->
                          [pc |-> "sleep", left |-> IF raised THEN ErrorSleepSteps
                                                    ELSE CleanupSleepSteps]
                     [] t.pc = "sleep" ->
                          [pc |-> IF t.left = 0 \/ ~bg.running THEN "check" ELSE "wait",
                           left |-> t.left]
                     [] t.pc = "wait" -> [pc |-> "sleep", left |-> t.left - 1]
                     [] OTHER -> t
       IN /\ next # t
          /\ bg' = [bg EXCEPT !.older[i] = next]
    /\ UNCHANGED exceptBg

\* The cleanup threads and the refresh tasks that have been started and have
\* not come to their end.
CleanupThreadsAlive ==
    (IF bg.cleanup \in {"none", "done"} THEN 0 ELSE 1)
        + Cardinality({i \in 1..Len(bg.older) : bg.older[i].pc \notin {"none", "done"}})

RefreshTasksAlive == IF bg.refresh \in {"created", "sleeping"} THEN 1 ELSE 0

----------------------------------------------------------------------------
(* Per-address limiter: src/app/cache/ip_rate_limiter.py *)

Ips == 1..NumIps

\* An address without a limiter, and the RateLimitProtector made for an
\* address at its first check.
NoLimiter == [tracked |-> FALSE, minute |-> <<>>, hour |-> <<>>, last |-> 0]
NewLimiter == [tracked |-> TRUE, minute |-> <<>>, hour |-> <<>>, last |-> 0]

\* No call made yet. A call that ran a cleanup pass keeps the map the pass
\* found and the map it left.
NoIpCall == [op |-> "none", ip |-> 0, allowed |-> FALSE, global_throttled |-> FALSE,
             due |-> FALSE, at |-> 0, before |-> <<>>, cleaned |-> <<>>]

\* __init__: no address tracked, _last_cleanup the time of construction.
IpIdle == [limiters |-> [ip \in Ips |-> NoLimiter], last_cleanup |-> TickSeconds,
           last |-> NoIpCall]

IpCleanupInterval == 300
IpDelayBetweenCallsMs == 200

\* The addresses that have a limiter.
Tracked(limiters) == {ip \in DOMAIN limiters : limiters[ip].tracked}

\* Lines 196-204: get_stats cleans the deques of the limiter; it is inactive
\* when no call of the last hour is left and its last call is none or older.
Inactive(limiter, now) ==
    /\ PopOld(limiter.hour, now - HourWindow) = <<>>
    /\ (limiter.last = 0 \/ limiter.last < now - HourWindow)

\* Lines 208-219: the place of an address in the list sorted by last call
\* time, most recent first, the sort keeping dict order among equals; the
\* addresses from place max_tracked_ips on are beyond the limit.
SortsBefore(limiters, k, ip) ==
    \/ limiters[k].last > limiters[ip].last
    \/ (limiters[k].last = limiters[ip].last /\ k < ip)

BeyondLimit(limiters, ip, max_tracked_ips) ==
    /\ Cardinality(Tracked(limiters)) > max_tracked_ips
    /\ Cardinality({k \in Tracked(limiters) : SortsBefore(limiters, k, ip)})
          >= max_tracked_ips

CleanedLimiter(limiter, now) ==
    [limiter EXCEPT !.minute = PopOld(limiter.minute, now - MinuteWindow),
                    !.hour = PopOld(limiter.hour, now - HourWindow)]

\* The cleanup that drops the inactive limiters only.
cleanup_inactive_ips_IdleOnly(limiters, now, max_tracked_ips) ==
    [ip \in DOMAIN limiters |->
        IF ~limiters[ip].tracked THEN limiters[ip]
        ELSE IF Inactive(limiters[ip], now)
        THEN NoLimiter ELSE CleanedLimiter(limiters[ip], now)]

\* _cleanup_inactive_ips: the inactive limiters and those beyond the limit
\* are dropped.
cleanup_inactive_ips(limiters, now, max_tracked_ips) ==
    [ip \in DOMAIN limiters |->
        IF ~limiters[ip].tracked THEN limiters[ip]
        ELSE IF \/ Inactive(limiters[ip], now)
                \/ BeyondLimit(limiters, ip, max_tracked_ips)
        THEN NoLimiter ELSE CleanedLimiter(limiters[ip], now)]

\* RateLimitProtector.should_throttle on the limiter of an address, with the
\* limits of the IPRateLimiter's config: the deques are cleaned, then tested.
ip_should_throttle(limiter, now) ==
    LET minute == PopOld(limiter.minute, now - MinuteWindow)
        hour == PopOld(limiter.hour, now - HourWindow)
    IN [limiter |-> [limiter EXCEPT !.minute = minute, !.hour = hour],
        throttle |-> \/ Len(minute) >= IpMaxPerMinute
                     \/ Len(hour) >= IpMaxPerHour
                     \/ (limiter.last > 0
                         /\ (now - limiter.last) * 1000 < IpDelayBetweenCallsMs)]

\* What should_throttle of the global limiter would answer at this time.
GlobalThrottled ==
    /\ enable_throttling
    /\ should_throttle(PopOld(minute_calls, clock - MinuteWindow),
                       PopOld(hour_calls, clock - HourWindow), last_call_time, clock)

\* check_ip_rate_limit(client_ip), lines 60-83.
CheckIpRateLimit(ip) ==
    /\ LET due == clock - ipl.last_cleanup > IpCleanupInterval
           cleaned == IF due
                      THEN cleanup_inactive_ips(ipl.limiters, clock, MaxTrackedIps)
                      ELSE ipl.limiters
           found == IF cleaned[ip].tracked THEN cleaned[ip] ELSE NewLimiter
           answer == ip_should_throttle(found, clock)
       IN ipl' = [limiters |-> [cleaned EXCEPT ![ip] = answer.limiter],
                  last_cleanup |-> IF due THEN clock ELSE ipl.last_cleanup,
                  last |-> [op |-> "check", ip |-> ip, allowed |-> ~answer.throttle,
                            global_throttled |-> GlobalThrottled,
                            due |-> due, at |-> clock,
                            before |-> IF due THEN ipl.limiters ELSE <<>>,
                            cleaned |-> IF due THEN cleaned ELSE <<>>]]
    /\ UNCHANGED exceptIp

\* get_all_ip_stats, lines 126-141: a cleanup pass whatever the time of the
\* last one, then the statistics of the limiters that are left.
GetAllIpStats ==
    /\ \E cleaned \in {cleanup_inactive_ips(ipl.limiters, clock, MaxTrackedIps)} :
          ipl' = [ipl EXCEPT
                     !.limiters = cleaned,
                     !.last = [op |-> "cleanup", ip |-> 0, allowed |-> FALSE,
                               global_throttled |-> FALSE, due |-> TRUE, at |-> clock,
                               before |-> ipl.limiters, cleaned |-> cleaned]]
    /\ UNCHANGED exceptIp

\* record_ip_call(client_ip), lines 85-94: only a tracked address records.
RecordIpCall(ip) ==
    /\ ipl.limiters[ip].tracked
    /\ Len(ipl.limiters[ip].hour) < MaxIpCalls
    /\ ipl' = [ipl EXCEPT
                  !.limiters[ip] =
                      [tracked |-> TRUE,
                       minute |-> PopOld(Append(ipl.limiters[ip].minute, clock),
                                         clock - MinuteWindow),
                       hour |-> PopOld(Append(ipl.limiters[ip].hour, clock),
                                       clock - HourWindow),
                       last |-> clock],
                  !.last = NoIpCall]
    /\ UNCHANGED exceptIp

----------------------------------------------------------------------------
(* Functions studied alone *)

CallsIdle ==
    /\ plan_req = <<0, 0, {}>>
    /\ plan_gaps = <<>>
    /\ conv_req = <<<<>>, FALSE>>
    /\ conv_out = <<>>
    /\ rl_wait = NoWait
    /\ retry = NoRetry
    /\ store_lock = 0
    /\ writing = [t \in Writers |-> NoWrite]
    /\ lock_thr = [t \in LockThreads |-> NoLockCall]

----------------------------------------------------------------------------
(* DataSeeder.seed_all_assets (data_seeder.py).                            *)

\* The four seeders in the order they are handed to asyncio.gather.
Categories == <<"stocks", "funds", "indices", "gold">>

\* What happens inside one seeder: its listing or its writes raise, it is
\* left by an exception its own handler does not take, or it seeds n assets.
SeedOutcomes ==
    {[how |-> "raises", n |-> 0], [how |-> "escapes", n |-> 0]}
        \cup {[how |-> "returns", n |-> n] : n \in 0..MaxSeedCount}

\* _seed_stocks, _seed_funds, _seed_indices, _seed_gold_providers: the count
\* of the assets written; an exception is logged and answered with count 0.
seed_category(outcome) ==
    CASE outcome.how = "raises" -> [kind |-> "dict", count |-> 0]
      [] outcome.how = "escapes" -> [kind |-> "exception", count |-> 0]
      [] OTHER -> [kind |-> "dict", count |-> outcome.n]

\* asyncio.gather without return_exceptions: the first exception leaves it.
gather_Propagating(results) ==
    IF \E i \in 1..Len(results) : results[i].kind = "exception"
    THEN [raised |-> TRUE, results |-> <<>>]
    ELSE [raised |-> FALSE, results |-> results]

\* asyncio.gather(..., return_exceptions=True): the results in the order of
\* the seeders, an exception standing in the place of its seeder's result.
gather(results) == [raised |-> FALSE, results |-> results]

RECURSIVE SumCounts(_, _)
SumCounts(results, i) ==
    IF i = 0 THEN 0
    ELSE SumCounts(results, i - 1)
           + (IF results[i].kind = "dict" THEN results[i].count ELSE 0)

\* Lines 61-79: the counts by category; an exception is logged and skipped.
process_results(results) ==
    [counts |-> [i \in 1..Len(results) |->
                    IF results[i].kind = "dict" THEN results[i].count ELSE 0],
     total |-> SumCounts(results, Len(results))]

NoCounts == [counts |-> <<>>, total |-> 0]

SeedIdle == [pc |-> "idle", outcomes |-> <<>>, results |-> <<>>, answer |-> NoCounts,
             failed |-> FALSE]

\* Lines 41-51: the call; without force_refresh a store that already holds
\* more than a hundred assets answers with its statistics and nothing is seeded.
SeedAllAssets(force_refresh, assets) ==
    /\ seed.pc = "idle"
    /\ seed' = [seed EXCEPT !.pc = IF ~force_refresh /\ assets > SeededAssets
                                   THEN "skipped" ELSE "seeding"]
    /\ UNCHANGED exceptSeed

\* One seeder runs to its end (none of them awaits, so they run one after
\* the other in the order given to gather).
SeedCategory(outcome) ==
    /\ seed.pc = "seeding"
    /\ Len(seed.results) < Len(Categories)
    /\ seed' = [seed EXCEPT !.outcomes = Append(@, outcome),
                            !.results = Append(@, seed_category(outcome))]
    /\ UNCHANGED exceptSeed

\* Lines 61-93: gather answers, the counts are made up and returned; an
\* exception leaving gather is logged and raised again.
SeedFinish ==
    /\ seed.pc = "seeding"
    /\ Len(seed.results) = Len(Categories)
    /\ \E gathered \in {gather(seed.results)} :
          seed' = [seed EXCEPT
                      !.pc = "done",
                      !.failed = gathered.raised,
                      !.answer = IF gathered.raised THEN NoCounts
                                 ELSE process_results(gathered.results)]
    /\ UNCHANGED exceptSeed

LateIdle == seed = SeedIdle /\ hreq = NoRequest

PureIdle ==
    /\ CallsIdle
    /\ mem = MemIdle
    /\ bg = BgIdle
    /\ chunk_wait = [w \in WorkerSlots |-> 0]
    /\ ipl = IpIdle
    /\ LateIdle

\* The components of the service at rest, the store empty.
ServiceIdle ==
    /\ clock = TickSeconds
    /\ historical_records = [d \in Dates |-> NoRow]
    /\ StoreIdle
    /\ LazyIdle
    /\ RateIdle
    /\ enable_throttling = TRUE
    /\ HistIdle
    /\ QuoteIdle

----------------------------------------------------------------------------
(* SpecLazy: callers of trigger_lazy_fetch and the background workers.      *)

\* The store at start: one of the given sets of dates already holds real bars.
InitLazyOf(stores) ==
    /\ clock = TickSeconds
    /\ LazyIdle
    /\ StoreIdle
    /\ RateIdle
    /\ enable_throttling = TRUE
    /\ HistIdle
    /\ QuoteIdle
    /\ PureIdle
    /\ \E cached \in stores :
          historical_records = [d \in Dates |-> IF d \in cached
                                                 THEN RowOf(FullBar(50)) ELSE NoRow]

InitLazy == InitLazyOf(SUBSET Dates)

NextLazy ==
    \/ \E c \in Callers, k \in LazyKeys : TriggerLock(c, k)
    \/ \E c \in Callers : TriggerSpawn(c)
    \/ \E w \in WorkerSlots : WorkerStart(w)
    \/ \E w \in WorkerSlots : WorkerPlan(w, "GOLD")
    \/ \E w \in WorkerSlots, has_data \in BOOLEAN : WorkerChunk(w, has_data)
    \/ \E w \in WorkerSlots : WorkerSleep(w)
    \/ \E w \in WorkerSlots : WorkerChunkError(w)
    \/ \E w \in WorkerSlots : WorkerFail(w)
    \/ \E w \in WorkerSlots : WorkerComplete(w)
    \/ \E w \in WorkerSlots : WorkerFinally(w)

SpecLazy == InitLazy /\ [][NextLazy]_vars

\* Every started thread is scheduled: thread.start() (line 78) runs once the
\* trigger has left its lock section, and a worker thread that can take its
\* next step (a provider call that returns or raises, a finite sleep, a short
\* lock section) takes it.
WorkerStep(w) ==
    \/ WorkerStart(w)
    \/ WorkerPlan(w, "GOLD")
    \/ \E has_data \in BOOLEAN : WorkerChunk(w, has_data)
    \/ WorkerSleep(w)
    \/ WorkerChunkError(w)
    \/ WorkerFail(w)
    \/ WorkerComplete(w)
    \/ WorkerFinally(w)

\* The fair runs start from an empty store or from one that holds the second
\* day only, which leaves two separate gaps and so two chunks to fetch.
InitLazyFair == InitLazyOf({{}, {2}})

SpecLazyFair ==
    /\ InitLazyFair
    /\ [][NextLazy]_vars
    /\ \A c \in Callers : WF_vars(TriggerSpawn(c))
    /\ \A w \in WorkerSlots : WF_vars(WorkerStep(w))

LiveWorkers(k) == {w \in WorkerSlots : worker[w] # NoWorker /\ worker[w].key = k}
PendingSpawns(k) == {c \in Callers : trigger_pc[c].pc = "spawn" /\ trigger_pc[c].key = k}

\* C2: at most one worker per key is active at any time, and a trigger that
\* arrives while its key is in the active set spawns no worker and leaves the
\* task's state unchanged.
C2_OneWorkerPerKey ==
    /\ [](\A k \in LazyKeys :
            /\ Cardinality(LiveWorkers(k)) + Cardinality(PendingSpawns(k)) <= 1
            /\ (LiveWorkers(k) # {} => k \in active_fetches))
    /\ [][\A c \in Callers :
            (/\ trigger_pc[c].pc = "idle"
             /\ trigger_pc'[c] # trigger_pc[c]
             /\ trigger_pc'[c].key \in active_fetches)
            => /\ trigger_pc'[c].pc = "idle"
               /\ UNCHANGED <<active_fetches, fetch_status, worker>>]_vars

\* A duplicate trigger was dropped while the key's worker is fetching chunks.
C2_Witness ==
    \E c \in Callers :
        /\ trigger_pc[c].last = "dropped"
        /\ \E w \in LiveWorkers(trigger_pc[c].key) : worker[w].pc = "chunk"

\* C16: every triggered lazy-fetch task eventually terminates, whatever the
\* provider returns or raises: its key is eventually removed from the active
\* set, its status is then completed or failed, and the status does not change
\* again until the same key is triggered again.
C16_TaskTerminates ==
    /\ \A k \in LazyKeys : (k \in active_fetches) ~> (k \notin active_fetches)
    /\ [](\A k \in DOMAIN fetch_status :
             k \notin active_fetches
             => fetch_status[k].status \in {"completed", "failed"})
    /\ [][\A k \in DOMAIN fetch_status :
             (k \notin active_fetches /\ k \notin active_fetches')
             => (k \in DOMAIN fetch_status' /\ fetch_status'[k] = fetch_status[k])]_vars

\* A task whose chunks were fetched has ended: its key has left the active set
\* and its status is completed, while the other key's task is still running.
C16_Witness ==
    \E k \in DOMAIN fetch_status :
        /\ k \notin active_fetches
        /\ fetch_status[k].status = "completed"
        /\ fetch_status[k].total_chunks > 0
        /\ active_fetches # {}

C17_FinalStatusAndRemovalAtomic ==
    \A k \in DOMAIN fetch_status :
        k \in active_fetches => fetch_status[k].status \notin {"completed", "failed"}

----------------------------------------------------------------------------
(* SpecStore: threads calling store_historical_records and the legacy       *)
(* mark_date_range_as_fetched on the shared HistoricalCacheManager.         *)

InitStore ==
    /\ clock = TickSeconds
    /\ historical_records = [d \in Dates |-> NoRow]
    /\ StoreIdle
    /\ LazyIdle
    /\ RateIdle
    /\ enable_throttling = TRUE
    /\ HistIdle
    /\ QuoteIdle
    /\ PureIdle

Store(records) ==
    /\ historical_records' = store_historical_records(historical_records, records)
    /\ UNCHANGED <<mark_pc, mark_dates, outsideStore>>

\* Lines 527-548: parse, get_cached_dates under the lock, early return when
\* nothing is to be marked.
MarkRead(m, start_date, end_date) ==
    /\ mark_pc[m] = "idle"
    /\ start_date <= end_date
    /\ LET todo == dates_to_mark(historical_records, start_date, end_date)
       IN /\ mark_dates' = [mark_dates EXCEPT ![m] = todo]
          /\ mark_pc' = [mark_pc EXCEPT ![m] = IF todo = {} THEN "idle" ELSE "write"]
    /\ UNCHANGED <<historical_records, outsideStore>>

\* Lines 551-576: the lock is taken again and the placeholders are written.
MarkWrite(m) ==
    /\ mark_pc[m] = "write"
    /\ historical_records' = WritePlaceholders(historical_records, mark_dates[m])
    /\ mark_pc' = [mark_pc EXCEPT ![m] = "idle"]
    /\ mark_dates' = [mark_dates EXCEPT ![m] = {}]
    /\ UNCHANGED outsideStore

NextStore ==
    \/ \E records \in RecordLists : Store(records)
    \/ \E m \in Markers, a \in Dates, b \in Dates : MarkRead(m, a, b)
    \/ \E m \in Markers : MarkWrite(m)

SpecStore == InitStore /\ [][NextStore]_vars

\* C1: once a real record (non-zero prices) is stored for a date, no placeholder
\* write replaces it, under every interleaving of store and markFetched calls.
C1_PlaceholderNeverReplacesReal ==
    [][\A d \in Dates : IsReal(historical_records[d])
                            => historical_records'[d] # PlaceholderRow]_vars

\* C9: cachedRecordsInRange returns exactly one record per stored real record
\* dated in [a,b], with the stored values (None normalised to 0.0), whatever
\* subset of the price fields is null, and never a placeholder.
Normalised(v) == IF v = NULL THEN 0 ELSE v
C9_CachedRecordsAreTheRealRecords ==
    \A a \in Dates, b \in Dates :
        a <= b =>
            LET out == get_cached_records(historical_records, a, b)
                real == {d \in a..b : IsReal(historical_records[d])}
            IN /\ {out[i].date : i \in 1..Len(out)} = real
               /\ Len(out) = Cardinality(real)
               /\ \A i \in 1..Len(out) :
                     out[i].nav = Normalised(historical_records[out[i].date].nav)

----------------------------------------------------------------------------
(* SpecRate: client threads going through wait_for_slot, the provider call   *)
(* and record_call on the one shared RateLimitProtector, while time passes. *)

InitRate ==
    /\ clock = TickSeconds
    /\ RateIdle
    /\ enable_throttling \in BOOLEAN
    /\ HistIdle
    /\ QuoteIdle
    /\ PureIdle
    /\ LazyIdle
    /\ StoreIdle
    /\ historical_records = [d \in Dates |-> NoRow]

NextRate ==
    \/ \E c \in Clients : WaitBegin(c)
    \/ \E c \in Clients : WaitCheck(c)
    \/ \E c \in Clients : ProviderCall(c)
    \/ \E c \in Clients : RecordCall(c)
    \/ GetStats
    \/ Tick

SpecRate == InitRate /\ [][NextRate]_vars

\* C3: with throttling enabled and every client thread following the protocol
\* wait_for_slot, provider call, record_call, no 60-second interval holds more
\* than max_per_minute invocations of record_call.
C3_AtMostMaxPerMinuteRecorded == enable_throttling => Len(recorded) <= MaxPerMinute

\* C14: a saturated minute window clears after 60 seconds without calls: with
\* the hour cap not reached, a should_throttle call made 60 s or more after
\* the last record_call returns false.
C14_MinuteWindowClearsAfter60s ==
    (/\ rl_last.op = "should_throttle"
     /\ enable_throttling
     /\ last_call_time > 0
     /\ clock - last_call_time >= MinuteWindow
     /\ Len(hour_calls) < MaxPerHour)
    => ~rl_last.result

\* The timestamps of both queues lie within their windows.
QueuesWithinWindows ==
    /\ \A i \in 1..Len(minute_calls) : clock - minute_calls[i] <= MinuteWindow
    /\ \A i \in 1..Len(hour_calls) : clock - hour_calls[i] <= HourWindow

\* C15, as stated: after every should_throttle, record_call or get_stats call
\* made at time now, every timestamp of the minute queue lies within the last
\* 60 s of now and every timestamp of the hour queue within the last 3600 s.
C15_QueuesCleanAfterEveryCall == rl_last.op # "none" => QueuesWithinWindows

\* The entries of a queue that are at most window seconds old.
InWindow(calls, window) == {i \in 1..Len(calls) : clock - calls[i] <= window}

\* C13: should_throttle returns true whenever, out-of-window entries dropped,
\* the minute window holds at least max_per_minute entries, or the hour window
\* at least max_per_hour entries, or less than the minimum interval has passed
\* since last_call_time.
C13_ThrottledWhenAtCapacity ==
    (rl_last.op = "should_throttle" /\ enable_throttling) =>
        ((\/ Cardinality(InWindow(minute_calls, MinuteWindow)) >= MaxPerMinute
          \/ Cardinality(InWindow(hour_calls, HourWindow)) >= MaxPerHour
          \/ (clock - last_call_time) * 1000 < DelayBetweenCallsMs)
         => rl_last.result)

\* should_throttle answered true with both caps reached, the delay long passed.
C13_Witness ==
    /\ rl_last.op = "should_throttle"
    /\ rl_last.result
    /\ Len(minute_calls) >= MaxPerMinute
    /\ Len(hour_calls) >= MaxPerHour
    /\ clock - last_call_time >= TickSeconds


----------------------------------------------------------------------------
(* SpecHistory: history requests to the stock or the index client, which    *)
(* fetch from the provider inside the request, as the days pass.           *)
(* SpecLazyHistory: history requests to the fund or the gold client, which  *)
(* answer from the store and start lazy-fetch workers; the workers take     *)
(* their steps in SpecLazy, not here.                                       *)

\* Provider answers a request consumes: one per gap for the index client, one
\* for the stock and fund clients, none for the gold client.
RepliesNeeded(start_date, end_date) ==
    CASE asset_type = "INDEX" ->
           Len(calculate_missing_date_ranges(start_date, end_date,
                  get_cached_dates(historical_records, start_date, end_date)))
      [] asset_type = "GOLD" -> 0
      [] OTHER -> 1

\* The rows a client finds in its table at start are rows it stored itself
\* from earlier provider answers.
CachedBar ==
    CASE asset_type = "STOCK" -> FullBar(5000)
      [] asset_type = "GOLD" -> FullBar(50)
      [] OTHER -> FullBar(5)

InitHistoryOf(types) ==
    /\ asset_type \in types
    /\ clock = (MaxDate - 1) * 86400 + NoonSeconds
    /\ hist_req = <<0, 0, FALSE>>
    /\ hist_result = <<>>
    /\ hist_calls = <<>>
    /\ hist_marked = 0
    /\ hist_n = 0
    /\ \E cached \in SUBSET Dates :
          historical_records = [d \in Dates |-> IF d \in cached
                                                 THEN RowOf(CachedBar) ELSE NoRow]
    /\ StoreIdle
    /\ LazyIdle
    /\ RateIdle
    /\ enable_throttling = TRUE
    /\ QuoteIdle
    /\ PureIdle

InitHistory == InitHistoryOf({"STOCK", "INDEX"})

HistoryRequest ==
    \E a \in Dates, b \in Dates :
       \E kinds \in [1..RepliesNeeded(a, b) -> ProviderKinds],
          per_chi \in (IF asset_type = "GOLD" THEN BOOLEAN ELSE {FALSE}) :
             GetHistory(a, b, kinds, per_chi)

NextHistory ==
    \/ HistoryRequest
    \/ AdvanceDay

SpecHistory == InitHistory /\ [][NextHistory]_vars

InitLazyHistory == InitHistoryOf({"FUND", "GOLD"})

NextLazyHistory == HistoryRequest

SpecLazyHistory == InitLazyHistory /\ [][NextLazyHistory]_vars

\* C4: the list a history request returns holds only records dated inside the
\* requested range, in ascending date order, no two with the same date.
C4_ResultInRangeAscendingUnique ==
    hist_n # 0 =>
        /\ \A i \in 1..Len(hist_result) :
              hist_req[1] <= hist_result[i].date /\ hist_result[i].date <= hist_req[2]
        /\ \A i \in 1..Len(hist_result), j \in 1..Len(hist_result) :
              i < j => hist_result[i].date < hist_result[j].date

\* C5: when a history request returned records for every date of its range,
\* the same request made again at once, with no clock step and no other write
\* between, returns the same set of records and makes no provider call.
C5_RepeatedRequestServedFromCache ==
    [][(/\ hist_n = 1
        /\ hist_n' = 2
        /\ \A d \in hist_req[1]..hist_req[2] :
              \E i \in 1..Len(hist_result) : hist_result[i].date = d)
       => /\ hist_calls' = <<>>
          /\ {hist_result'[i] : i \in 1..Len(hist_result')}
               = {hist_result[i] : i \in 1..Len(hist_result)}]_vars

\* C6: when the store holds real records for part of the requested range only,
\* the request calls the provider once per gap the planner reports, with that
\* gap as the range, and returns every cached record of the range.
C6_OneProviderCallPerGap ==
    [][(/\ hist_n' # 0
        /\ <<hist_n, hist_req>>' # <<hist_n, hist_req>>
        /\ get_cached_records(historical_records, hist_req'[1], hist_req'[2]) # <<>>
        /\ \E d \in hist_req'[1]..hist_req'[2] : ~IsReal(historical_records[d]))
       => /\ hist_calls' = calculate_missing_date_ranges(hist_req'[1], hist_req'[2],
                              get_cached_dates(historical_records, hist_req'[1],
                                               hist_req'[2]))
          /\ \A d \in hist_req'[1]..hist_req'[2] :
                RecordFilter(historical_records[d])
                => \E i \in 1..Len(hist_result') : hist_result'[i].date = d]_vars

\* C22: when cached history is served, the read returns without waiting for
\* the freshness top-up: the history call that finds cached records for its
\* range makes no provider call and no store write before it returns them.
C22_CachedReadDoesNotWaitForTopUp ==
    [][(/\ asset_type = "STOCK"
        /\ hist_n' # 0
        /\ <<hist_n, hist_req>>' # <<hist_n, hist_req>>
        /\ get_cached_records(historical_records, hist_req'[1], hist_req'[2]) # <<>>)
       => /\ hist_calls' = <<>>
          /\ historical_records' = historical_records]_vars

\* C23: in lazy-fetch mode, when a history request answers from the store
\* alone with records that leave a trading day of [start, end] uncovered, a
\* lazy-fetch task keyed by that range is active when the request returns.
C23_PartialAnswerHasActiveFetch ==
    (/\ hist_n # 0
     /\ asset_type \in {"FUND", "GOLD"}
     /\ hist_calls = <<>>
     /\ hist_result # <<>>
     /\ \E d \in hist_req[1]..hist_req[2] :
           /\ Weekday(d) < 5
           /\ \A i \in 1..Len(hist_result) : hist_result[i].date # d)
    => <<hist_req[1], hist_req[2]>> \in active_fetches

\* C24: on any day, get_most_recent_record answers the real record of the
\* greatest date inside the lookback window, whichever writer stored the row,
\* and answers nothing only when the window holds no real record.
C24_MostRecentIsLatestRealRecord ==
    \A now_day \in Dates :
       LET real == {d \in Dates : /\ now_day - LookbackDays <= d
                                  /\ d <= now_day
                                  /\ IsReal(historical_records[d])}
           recent_record == get_most_recent_record(historical_records, now_day,
                                                   LookbackDays)
       IN IF real = {}
          THEN recent_record = NoQuote
          ELSE /\ recent_record # NoQuote
               /\ \A d \in real : d <= recent_record.date
               /\ recent_record.date \in real

\* C10: the mark_date_range_as_fetched calls made by a history request, whatever
\* the asset type, return 0 and write no row.
C10_MarkFetchedWritesNothing == hist_n # 0 => hist_marked = 0

----------------------------------------------------------------------------
(* SpecQuote: quote requests for one stock or fund symbol, quotes of other   *)
(* symbols entering the shared QuoteCache, and time passing.                *)

InitQuote ==
    /\ asset_type \in {"STOCK", "FUND"}
    /\ clock = 86400
    /\ hist_req = <<0, 0, FALSE>>
    /\ hist_result = <<>>
    /\ hist_calls = <<>>
    /\ hist_marked = 0
    /\ hist_n = 0
    /\ \E cached \in SUBSET Dates :
          historical_records = [d \in Dates |-> IF d \in cached
                                                 THEN RowOf(CachedBar) ELSE NoRow]
    /\ QuoteIdle
    /\ PureIdle
    /\ StoreIdle
    /\ LazyIdle
    /\ RateIdle
    /\ enable_throttling = TRUE

NextQuote ==
    \/ \E answer \in ProviderQuotes, kind \in ProviderKinds : GetQuote(answer, kind)
    \/ OtherQuote
    \/ QuoteTick

SpecQuote == InitQuote /\ [][NextQuote]_vars

\* C7: while less than the TTL of the asset type has passed since the quote was
\* stored, a quote request returns the stored quote without a provider call;
\* from then on a quote request calls the provider, whichever cache tier
\* served the requests in between.
C7_QuoteServedUntilTTL ==
    q_last.t0 # NULL =>
        IF q_last.at < q_last.t0 + get_ttl_for_asset(asset_type)
        THEN q_last.answer = "unasked" /\ q_last.result = q_last.stored
        ELSE q_last.answer # "unasked"

\* C8: a quote request whose provider call failed, by an exception or an empty
\* answer, does not end in not-found while the store holds a real record of
\* the symbol dated within the last 30 days.
C8_FallbackBeforeNotFound ==
    (q_last.answer \in {"raise", "empty"} /\ q_last.had_real) => q_last.result # NoQuote

----------------------------------------------------------------------------
(* SpecPlanner: calculate_missing_date_ranges applied to any range and any  *)
(* set of cached dates, dates outside the range included.                   *)

PlanDates == 0..(MaxDate + 1)

InitPlanner ==
    /\ clock = TickSeconds
    /\ historical_records = [d \in Dates |-> NoRow]
    /\ StoreIdle
    /\ LazyIdle
    /\ RateIdle
    /\ enable_throttling = TRUE
    /\ HistIdle
    /\ QuoteIdle
    /\ PureIdle

Plan(start_date, end_date, cached_dates) ==
    /\ start_date <= end_date
    /\ plan_req' = <<start_date, end_date, cached_dates>>
    /\ plan_gaps' = calculate_missing_date_ranges(start_date, end_date, cached_dates)
    /\ UNCHANGED <<storeVars, lazyVars, rateVars, histVars, quoteVars, writeVars, unitVars, conv_req, conv_out, rl_wait, retry>>

NextPlanner ==
    \E start_date \in Dates, end_date \in Dates, cached_dates \in SUBSET PlanDates :
        Plan(start_date, end_date, cached_dates)

SpecPlanner == InitPlanner /\ [][NextPlanner]_vars

\* C11: the gaps the planner returns are sorted ascending, pairwise disjoint
\* and not adjacent, hold no cached date, and together with the cached dates
\* of [a,b] are exactly the dates of [a,b].
C11_GapsPartitionTheMissingDates ==
    plan_req[1] # 0 =>
        LET a == plan_req[1]
            b == plan_req[2]
            cached == plan_req[3]
            covered == UNION {plan_gaps[i][1]..plan_gaps[i][2] : i \in 1..Len(plan_gaps)}
        IN /\ \A i \in 1..Len(plan_gaps) : plan_gaps[i][1] <= plan_gaps[i][2]
           /\ \A i \in 1..(Len(plan_gaps) - 1) : plan_gaps[i][2] + 1 < plan_gaps[i + 1][1]
           /\ covered \cap cached = {}
           /\ covered \cup (cached \cap (a..b)) = a..b

\* Two gaps around a cached date, one of them of several days, with a cached
\* date outside the range.
C11_Witness ==
    /\ Len(plan_gaps) = 2
    /\ \E i \in 1..2 : plan_gaps[i][1] < plan_gaps[i][2]
    /\ \E d \in plan_req[3] : d < plan_req[1] \/ d > plan_req[2]

----------------------------------------------------------------------------
(* SpecGold: the unit conversion of the gold history path applied to the    *)
(* records get_cached_records hands it, for "VN.GOLD.C" and for "VN.GOLD".  *)

\* A gold record as get_cached_records returns it: every column present, the
\* price columns holding the price of the day (multiples of 10, so that a
\* tenth is a whole number), adjclose 0 from the SJC fetch or the price from
\* the seeder.
GoldRecord(d, price, adjclose, volume, buy_price) ==
    [date |-> d, open |-> price, high |-> price, low |-> price, close |-> price,
     adjclose |-> adjclose, volume |-> volume, nav |-> price,
     buy_price |-> buy_price, sell_price |-> price]

\* The results of get_cached_records: one record per day, in date order.
GoldShapes ==
    {GoldRecord(0, price, adjclose, volume, price - 20) :
        price \in {50, 70}, adjclose \in {0, 50}, volume \in {0, 3}}

GoldLists ==
    UNION {{[i \in 1..n |-> [shapes[i] EXCEPT !.date = i]] : shapes \in [1..n -> GoldShapes]} :
              n \in 1..MaxGoldDays}

InitGold ==
    /\ clock = TickSeconds
    /\ historical_records = [d \in Dates |-> NoRow]
    /\ StoreIdle
    /\ LazyIdle
    /\ RateIdle
    /\ enable_throttling = TRUE
    /\ HistIdle
    /\ QuoteIdle
    /\ PureIdle

Convert(records, per_chi) ==
    /\ conv_req' = <<records, per_chi>>
    /\ conv_out' = apply_unit_conversion(records, per_chi)
    /\ UNCHANGED <<storeVars, lazyVars, rateVars, histVars, quoteVars, writeVars, unitVars, plan_req, plan_gaps, rl_wait, retry>>

NextGold == \E records \in GoldLists, per_chi \in BOOLEAN : Convert(records, per_chi)

SpecGold == InitGold /\ [][NextGold]_vars

\* C12: for a stored gold record R the history of "VN.GOLD.C" holds R with open,
\* high, low, close, adjclose, buy_price and sell_price each divided by 10 and
\* the volume unchanged, and the history of "VN.GOLD" holds R unchanged.
C12_GoldUnitConversion ==
    LET records == conv_req[1]
        per_chi == conv_req[2]
    IN /\ Len(conv_out) = Len(records)
       /\ \A i \in 1..Len(records) :
             IF per_chi
             THEN /\ \A f \in {"open", "high", "low", "close", "adjclose", "buy_price",
                               "sell_price"} : conv_out[i][f] * 10 = records[i][f]
                  /\ conv_out[i].volume = records[i].volume
                  /\ conv_out[i].date = records[i].date
             ELSE \A f \in DOMAIN records[i] : conv_out[i][f] = records[i][f]

\* A ".C" request that returned a record with a volume and an adjclose.
C12_Witness ==
    /\ conv_req[2]
    /\ \E i \in 1..Len(conv_out) :
          /\ conv_out[i].volume = 3
          /\ conv_out[i].adjclose = 5
          /\ conv_out[i].sell_price = 7


----------------------------------------------------------------------------
(* SpecWait: one caller inside wait_for_slot while other threads record     *)
(* provider calls.                                                          *)

\* The timeouts handed to wait_for_slot: a short one and the default.
WaitTimeouts == {ShortTimeout, WaitTimeout}

InitWait ==
    /\ clock = TickSeconds
    /\ RateIdle
    /\ enable_throttling \in BOOLEAN
    /\ HistIdle
    /\ QuoteIdle
    /\ PureIdle
    /\ LazyIdle
    /\ StoreIdle
    /\ historical_records = [d \in Dates |-> NoRow]

NextWait ==
    \/ \E timeout \in WaitTimeouts : WaitForSlotEnter(timeout)
    \/ WaitForSlotCheck
    \/ WaitForSlotSleep
    \/ OtherRecordCall

SpecWait == InitWait /\ [][NextWait]_vars

\* C18: wait_for_slot(timeout) never blocks its caller longer than timeout
\* seconds: the sleeps it has asked for since it was entered add up to at most
\* timeout seconds, and when it has returned at most timeout seconds have
\* passed since it was entered; it returns false only when it was still
\* throttled after more than timeout seconds.
C18_WaitBoundedByTimeout ==
    /\ rl_wait.slept_ms <= rl_wait.timeout * 1000
    /\ rl_wait.result # "none" => clock - rl_wait.start <= rl_wait.timeout


----------------------------------------------------------------------------
(* SpecRetry: one caller of execute_with_rate_limit_retry while other       *)
(* threads record provider calls.                                           *)

\* The numbers of seconds a rate-limit message can tell: none or 3.
ToldSeconds == {NULL, 3}

InitRetry == InitWait

NextRetry ==
    \/ \E max_retries \in 0..MaxRetries : RetryBegin(max_retries)
    \/ RetryEnterWait
    \/ WaitForSlotCheck
    \/ WaitForSlotSleep
    \/ \E outcome \in {"ok", "rate_limited", "error"}, seconds \in ToldSeconds :
          RetryInvoke(outcome, seconds)
    \/ RetrySleep
    \/ OtherRecordCall

SpecRetry == InitRetry /\ [][NextRetry]_vars

\* The attempts of the call under study in which func was invoked.
Invocations == {i \in 1..Len(retry.outcomes) : retry.outcomes[i] # "timeout"}

\* C19: the wrapper invokes func at most max_retries + 1 times in total, the
\* rate-limited and the other failures counted against the same budget; it
\* returns the result of the first successful invocation and does not invoke
\* func again; when every attempt has failed it raises the last error.
C19_RetryBudget ==
    /\ Len(retry.outcomes) <= retry.max_retries + 1
    /\ Cardinality(Invocations) <= retry.max_retries + 1
    /\ \A i \in 1..Len(retry.outcomes) :
          retry.outcomes[i] = "ok"
          => /\ i = Len(retry.outcomes)
             /\ retry.pc = "returned"
             /\ retry.result = i
    /\ retry.pc = "returned" => retry.outcomes[Len(retry.outcomes)] = "ok"
    /\ retry.pc = "raised"
       => /\ \A i \in 1..Len(retry.outcomes) : retry.outcomes[i] # "ok"
          /\ Len(retry.outcomes) = retry.max_retries + 1
          /\ retry.raised = Len(retry.outcomes)

\* A call with two retries raised the error of its third attempt after a
\* rate-limited failure and a failure of another kind.
C19_Witness ==
    /\ retry.pc = "raised"
    /\ retry.max_retries = 2
    /\ retry.raised = 3
    /\ \E i \in 1..2 : retry.outcomes[i] = "rate_limited"
    /\ \E i \in 1..2 : retry.outcomes[i] = "error"


----------------------------------------------------------------------------
(* SpecWriters: the threads that write the rows of one fund or gold symbol: *)
(* client threads through store_historical_records and lazy-fetch workers   *)
(* through _store_records.                                                  *)

InitWriters == InitWait /\ enable_throttling

NextWriters ==
    \/ \E t \in Writers, lo \in Dates, hi \in Dates : StoreBegin(t, lo, hi)
    \/ \E t \in Writers : StoreCommit(t)
    \/ \E t \in Writers, lo \in Dates, hi \in Dates : LazyStoreBegin(t, lo, hi)
    \/ \E t \in Writers : LazyStoreCommit(t)

SpecWriters == InitWriters /\ [][NextWriters]_vars

\* C20: every write to the historical store is made while its thread holds the
\* store's mutex, and the writers of one (symbol, asset_type, date) key use the
\* same mutex, so that no two write-and-commit sequences for one key overlap.
C20_WritesUnderTheStoreMutex ==
    /\ \A t \in Writers : writing[t].pc = "write" => store_lock = t
    /\ \A t \in Writers, u \in Writers :
          (t # u /\ writing[t].pc = "write" /\ writing[u].pc = "write")
          => (writing[t].hi < writing[u].lo \/ writing[u].hi < writing[t].lo)


----------------------------------------------------------------------------
(* SpecLocks: threads calling into the components that own a lock.          *)

InitLocks == InitWriters

NextLocks ==
    \/ \E t \in LockThreads, op \in LockOps : LockCall(t, op)
    \/ \E t \in LockThreads : LockAcquire(t)
    \/ \E t \in LockThreads : IpShouldThrottle(t)
    \/ \E t \in LockThreads : LockRelease(t)

SpecLocks == InitLocks /\ [][NextLocks]_vars

\* Threads that wait, each for a lock held by a waiting thread of the set.
Deadlocked ==
    \E S \in SUBSET LockThreads :
        /\ S # {}
        /\ \A t \in S : /\ lock_thr[t].want # "none"
                        /\ \E u \in S \ {t} : u \in Holders(lock_thr[t].want)

\* C21: in every reachable state no thread holds more than one component lock
\* (store mutex, limiter lock, per-IP limiter lock, in-memory cache lock,
\* lazy-fetch lock) at a time, and the system never deadlocks.
C21_OneLockPerThread ==
    /\ \A t \in LockThreads : Len(lock_thr[t].held) <= 1
    /\ ~Deadlocked


----------------------------------------------------------------------------
(* SpecGoldQuote: quote requests to the gold client as the hours pass, on   *)
(* the first day and on the third, the store holding rows of days gone by. *)

GoldQuoteDays == {1, MaxDate - 1}

InitGoldQuote ==
    /\ asset_type = "GOLD"
    /\ \E day \in GoldQuoteDays :
          /\ clock = day * 86400
          /\ \E cached \in SUBSET (1..day) :
                historical_records = [d \in Dates |-> IF d \in cached
                                                       THEN RowOf(CachedBar) ELSE NoRow]
    /\ hist_req = <<0, 0, FALSE>>
    /\ hist_result = <<>>
    /\ hist_calls = <<>>
    /\ hist_marked = 0
    /\ hist_n = 0
    /\ QuoteIdle
    /\ PureIdle
    /\ StoreIdle
    /\ LazyIdle
    /\ RateIdle
    /\ enable_throttling = TRUE

NextGoldQuote ==
    \/ \E answer \in ProviderQuotes : GetGoldQuote(answer, FALSE)
    \/ GoldQuoteTick

SpecGoldQuote == InitGoldQuote /\ [][NextGoldQuote]_vars

\* C25: a gold quote request that finds an unexpired entry in memory returns
\* that entry, and neither the quotes table, the historical store nor the
\* provider has a part in the answer.
C25_MemoryHitAnswersAlone ==
    [][(/\ q_last' # q_last
        /\ memory_get(quote_memory, "S", clock).value # NoQuote)
       => /\ q_last'.source = "memory"
          /\ q_last'.result = memory_get(quote_memory, "S", clock).value
          /\ q_last'.answer = "unasked"
          /\ quote_row' = quote_row
          /\ historical_records' = historical_records]_vars


----------------------------------------------------------------------------
(* SpecMemory: get and set calls on a MemoryCache as the seconds pass; the  *)
(* cache starts empty with a small max_size, or full with a large one.     *)

\* A full cache of n entries put at second 0 for two seconds, some of them
\* read again at second 1.
WarmPatterns == {"front", "back", "same", "alternate"}

WarmCache(n, pattern) ==
    [i \in 1..n |->
        [key |-> i, value |-> Dated(1, FullBar(5)), expires_at |-> 2,
         accessed_at |-> CASE pattern = "front" -> IF i <= 2 THEN 0 ELSE 1
                           [] pattern = "back" -> IF i > n - 2 THEN 0 ELSE 1
                           [] pattern = "same" -> 0
                           [] pattern = "alternate" -> i % 2]]

InitMemory ==
    /\ ServiceIdle
    /\ CallsIdle
    /\ bg = BgIdle
    /\ chunk_wait = [w \in WorkerSlots |-> 0]
    /\ ipl = IpIdle
    /\ LateIdle
    /\ \/ mem = MemIdle
       \/ \E pattern \in WarmPatterns :
             mem = [MemIdle EXCEPT !.cache = WarmCache(LargeSize, pattern),
                                   !.max_size = LargeSize]

NextMemory ==
    \/ \E key \in ProbeKeys : MemGet(key)
    \/ \E key \in ProbeKeys, write \in MemWrites : MemSet(key, write[1], write[2])
    \/ \E key \in ProbeKeys : MemDelete(key)
    \/ MemCleanupExpired
    \/ MemTick

SpecMemory == InitMemory /\ [][NextMemory]_vars

MemKeysOf(cache) == {cache[i].key : i \in 1..Len(cache)}

\* C26: a set on a full cache removes max(1, len // 10) of the entries it
\* finds, every removed entry was accessed no later than every entry kept,
\* and the kept entries are left as they were.
C26_EvictionTakesLeastRecentlyAccessed ==
    (mem.last.op = "set" /\ Len(mem.last.before) >= mem.max_size) =>
        LET before == mem.last.before
            room == mem.last.room
            evicted == {i \in 1..Len(before) : before[i].key \notin MemKeysOf(room)}
            kept == (1..Len(before)) \ evicted
            tenth == Len(before) \div 10
        IN /\ Cardinality(evicted) = IF tenth > 1 THEN tenth ELSE 1
           /\ \A i \in evicted, j \in kept :
                 before[i].accessed_at <= before[j].accessed_at
           /\ Len(room) = Cardinality(kept)
           /\ \A j \in kept : \E k \in 1..Len(room) : room[k] = before[j]

\* A set on a full cache of twenty entries or more took more than one entry,
\* one of them accessed at the same second as an entry it kept.
C26_Witness ==
    /\ mem.last.op = "set"
    /\ Len(mem.last.before) >= mem.max_size
    /\ Len(mem.last.before) \div 10 > 1
    /\ Len(mem.last.room) < Len(mem.last.before) - 1
    /\ \E i, j \in 1..Len(mem.last.before) :
          /\ mem.last.before[i].key \notin MemKeysOf(mem.last.room)
          /\ mem.last.before[j].key \in MemKeysOf(mem.last.room)
          /\ mem.last.before[i].accessed_at = mem.last.before[j].accessed_at

\* C27: get answers the stored value exactly when the key is present and the
\* time is before its expiry, the entry's accessed_at then being the time of
\* the call and a hit counted; otherwise it answers nothing, the key is not in
\* the cache afterwards and a miss is counted.
C27_GetNeverAnswersExpired ==
    mem.last.op = "get" =>
        LET before == mem.last.before
            after == mem.last.room
            key == mem.last.key
            at == mem.last.at
            live == {i \in 1..Len(before) :
                        before[i].key = key /\ at < before[i].expires_at}
        IN IF live # {}
           THEN /\ \A i \in live :
                     /\ mem.last.value = before[i].value
                     /\ after = [before EXCEPT ![i].accessed_at = at]
                /\ mem.hits = mem.last.hits + 1
                /\ mem.misses = mem.last.misses
           ELSE /\ mem.last.value = NoQuote
                /\ key \notin MemKeysOf(after)
                /\ \A i \in 1..Len(before) :
                      before[i].key # key => \E k \in 1..Len(after) : after[k] = before[i]
                /\ mem.hits = mem.last.hits
                /\ mem.misses = mem.last.misses + 1

\* A get at the very second an entry expires found it, removed it and
\* answered nothing.
C27_Witness ==
    /\ mem.last.op = "get"
    /\ \E i \in 1..Len(mem.last.before) :
          /\ mem.last.before[i].key = mem.last.key
          /\ mem.last.before[i].expires_at = mem.last.at
    /\ mem.last.value = NoQuote
    /\ mem.last.key \notin MemKeysOf(mem.last.room)


----------------------------------------------------------------------------
(* SpecShutdown: the background tasks are started and stopped while one     *)
(* caller triggers lazy fetches and the workers run; the store holds the    *)
(* second day, which leaves two chunks to fetch.                            *)

InitShutdown == InitLazyOf({{2}})

NextShutdown ==
    \/ StartBackgroundTasks
    \/ StopBackgroundTasks
    \/ RefreshPass
    \/ CleanupCheck
    \/ \E raised \in BOOLEAN : CleanupWork(raised)
    \/ CleanupSleepCheck
    \/ CleanupWait
    \/ \E k \in LazyKeys : TriggerLock(1, k)
    \/ TriggerSpawn(1)
    \/ \E w \in WorkerSlots : WorkerStep(w)

SpecShutdown == InitShutdown /\ [][NextShutdown]_vars

\* C28: once stop_background_tasks has run, the refresh task is over, the
\* cleanup thread begins no wait (one begun before may end), and a lazy-fetch
\* worker fetches no chunk but the one it was fetching.
C28_WorkersStopAtShutdown ==
    [][bg.signalled =>
          /\ bg.refresh \in {"cancelled", "done"}
          /\ bg.waits = 0
          /\ \A w \in WorkerSlots :
                (worker[w].pc = "chunk" /\ worker'[w] # worker[w])
                => worker[w].i = bg.in_flight[w]]_vars


----------------------------------------------------------------------------
(* SpecIp: requests from a few addresses are checked and recorded by the    *)
(* IPRateLimiter while calls are recorded on the global limiter, up to its  *)
(* per-minute cap, and the clock advances.                                  *)

InitIp ==
    /\ ServiceIdle
    /\ PureIdle

NextIp ==
    \/ \E ip \in Ips : CheckIpRateLimit(ip)
    \/ \E ip \in Ips : RecordIpCall(ip)
    \/ (Len(hour_calls) < MaxPerMinute /\ OtherRecordCall)
    \/ Tick

SpecIp == InitIp /\ [][NextIp]_vars

\* C30: check_ip_rate_limit answers 'allowed' only when the global limiter's
\* should_throttle is false at that time.
C30_AllowedOnlyIfGlobalPermits ==
    (ipl.last.op = "check" /\ ipl.last.allowed) => ~ipl.last.global_throttled


----------------------------------------------------------------------------
(* SpecIpCleanup: two hours after start the IPRateLimiter holds limiters of *)
(* addresses that never called, called long ago or called within the hour, *)
(* more of them than max_tracked_ips; cleanup passes, checks and calls.     *)

\* The limiter of an address that recorded one call at the given time and was
\* not looked at since.
CalledAt(t) == [tracked |-> TRUE, minute |-> <<t>>, hour |-> <<t>>, last |-> t]

StoredLimiters ==
    {NoLimiter, NewLimiter, CalledAt(5 * TickSeconds),
     CalledAt(2 * HourWindow - 2 * TickSeconds), CalledAt(2 * HourWindow - TickSeconds)}

InitIpCleanup ==
    /\ historical_records = [d \in Dates |-> NoRow]
    /\ StoreIdle
    /\ LazyIdle
    /\ RateIdle
    /\ enable_throttling = TRUE
    /\ HistIdle
    /\ QuoteIdle
    /\ CallsIdle
    /\ mem = MemIdle
    /\ bg = BgIdle
    /\ chunk_wait = [w \in WorkerSlots |-> 0]
    /\ LateIdle
    /\ clock = 2 * HourWindow
    /\ \E limiters \in [1..NumStoredIps -> StoredLimiters] :
          ipl = [IpIdle EXCEPT !.limiters = limiters]

NextIpCleanup ==
    \/ GetAllIpStats
    \/ \E ip \in Ips : CheckIpRateLimit(ip)
    \/ \E ip \in Ips : RecordIpCall(ip)

SpecIpCleanup == InitIpCleanup /\ [][NextIpCleanup]_vars

\* C31: after a cleanup pass at most max_tracked_ips addresses are tracked;
\* an address dropped though it was not inactive was dropped for capacity,
\* with a last call no later than that of any address kept; an address that
\* called within the last hour is dropped only so.
C31_CleanupBoundsTheMap ==
    ipl.last.due =>
        LET before == ipl.last.before
            cleaned == ipl.last.cleaned
            now == ipl.last.at
            removed == Tracked(before) \ Tracked(cleaned)
            idle == {ip \in Tracked(before) :
                        /\ \A i \in 1..Len(before[ip].hour) :
                              before[ip].hour[i] < now - HourWindow
                        /\ (before[ip].last = 0 \/ before[ip].last < now - HourWindow)}
        IN /\ Cardinality(Tracked(cleaned)) <= MaxTrackedIps
           /\ Tracked(cleaned) \subseteq Tracked(before)
           /\ idle \subseteq removed
           /\ \A r \in removed \ idle :
                 /\ Cardinality(Tracked(before)) > MaxTrackedIps
                 /\ \A k \in Tracked(cleaned) : before[r].last <= before[k].last
           /\ \A ip \in Tracked(cleaned) : cleaned[ip].last = before[ip].last

\* A pass found three addresses that had all called within the hour, one more
\* than the limit, and dropped the one whose call was the oldest.
C31_Witness ==
    /\ ipl.last.op = "cleanup"
    /\ Cardinality(Tracked(ipl.last.before)) > MaxTrackedIps
    /\ \A ip \in Tracked(ipl.last.before) :
          ipl.last.before[ip].last >= ipl.last.at - HourWindow
    /\ Cardinality(Tracked(ipl.last.cleaned)) = MaxTrackedIps


----------------------------------------------------------------------------
(* SpecSeed: one seed_all_assets call; each of the four seeders seeds some *)
(* assets or raises.                                                       *)

InitSeed == ServiceIdle /\ PureIdle

NextSeed ==
    \/ \E force_refresh \in BOOLEAN, assets \in {0, SeededAssets + 1} :
          SeedAllAssets(force_refresh, assets)
    \/ \E outcome \in SeedOutcomes : SeedCategory(outcome)
    \/ SeedFinish

SpecSeed == InitSeed /\ [][NextSeed]_vars

\* C32: a seeding run in which categories raised does not fail; every
\* category that did not raise reports the count it seeded, and the total is
\* the sum of the counts reported.
C32_OneCategoryRaisingLeavesTheOthers ==
    seed.pc = "done" =>
        /\ ~seed.failed
        /\ Len(seed.answer.counts) = Len(Categories)
        /\ \A i \in 1..Len(Categories) :
              seed.answer.counts[i] =
                  IF seed.outcomes[i].how = "returns" THEN seed.outcomes[i].n ELSE 0
        /\ seed.answer.total = SumCounts(seed.results, Len(Categories))

\* A run ended in which exactly one category raised and the three others
\* each seeded assets.
C32_Witness ==
    /\ seed.pc = "done"
    /\ Cardinality({i \in 1..Len(Categories) :
                       seed.outcomes[i].how # "returns"}) = 1
    /\ \A i \in 1..Len(Categories) :
          seed.outcomes[i].how = "returns" => seed.answer.counts[i] > 0


----------------------------------------------------------------------------
(* SpecRoute: requests on GET /history/{symbol} for a gold, index, fund or *)
(* stock symbol, the dates well-formed or not, past or future. The provider *)
(* has no rows for a range that reaches past today.                         *)

InitRoute == InitHistoryOf({"GOLD", "INDEX", "FUND", "STOCK"})

RouteDates == Dates \cup {MalformedDate}

RouteRequest ==
    /\ hreq.n < MaxRouteRequests
    /\ \E a \in RouteDates, b \in RouteDates :
          \E kinds \in [1..(IF a = MalformedDate \/ b = MalformedDate THEN 0
                            ELSE RepliesNeeded(a, b)) ->
                           IF b > today THEN {"empty"} ELSE ProviderKinds],
             per_chi \in (IF asset_type = "GOLD" THEN BOOLEAN ELSE {FALSE}),
             matched \in (IF \E d \in Dates : historical_records[d] # NoRow
                          THEN BOOLEAN ELSE {FALSE}) :
                GetHistoryRoute(a, b, kinds, per_chi, matched)

NextRoute == RouteRequest

SpecRoute == InitRoute /\ [][NextRoute]_vars

\* C39: the cache never holds more than max_size entries, and a set on a
\* key that is already in the cache removes no other entry.
C39_SetEvictsOnlyForANewKey ==
    /\ Len(mem.cache) <= mem.max_size
    /\ (/\ mem.last.op = "set"
        /\ \E i \in 1..Len(mem.last.before) : mem.last.before[i].key = mem.last.key)
          => \A i \in 1..Len(mem.last.before) :
                \/ mem.last.before[i].key = mem.last.key
                \/ \E j \in 1..Len(mem.last.room) :
                      mem.last.room[j].key = mem.last.before[i].key

\* C38: the status of a lazy-fetch task moves from queued to running and from
\* running to completed or failed, and in no other way; while it is running
\* completed_chunks does not decrease and does not exceed total_chunks. A
\* trigger that makes the key active again starts a new task.
StatusMoves ==
    {<<"queued", "queued">>, <<"queued", "running">>, <<"running", "running">>,
     <<"running", "completed">>, <<"running", "failed">>,
     <<"completed", "completed">>, <<"failed", "failed">>}

C38_StatusMovesForward ==
    [][\A k \in DOMAIN fetch_status :
          (/\ k \in DOMAIN fetch_status'
           /\ ~(k \notin active_fetches /\ k \in active_fetches'))
              => /\ <<fetch_status[k].status, fetch_status'[k].status>> \in StatusMoves
                 /\ (fetch_status[k].status = "running"
                     /\ fetch_status'[k].status = "running")
                       => fetch_status'[k].completed_chunks
                             >= fetch_status[k].completed_chunks
                 /\ fetch_status'[k].status = "running"
                       => fetch_status'[k].completed_chunks
                             <= fetch_status'[k].total_chunks]_vars

\* A task of two chunks went from queued through running to completed.
C38_Witness ==
    \E k \in DOMAIN fetch_status :
       /\ fetch_status[k].status = "completed"
       /\ fetch_status[k].total_chunks >= 2
       /\ fetch_status[k].completed_chunks = fetch_status[k].total_chunks

\* C37: a chunk whose fetch or store raised reports no progress, so a task
\* whose chunks all went through stands at completed_chunks = total_chunks
\* when its loop ends; a task is set to completed with completed_chunks =
\* total_chunks only from there.
C37_CompletedOnlyAfterEveryChunk ==
    [][\A k \in DOMAIN fetch_status :
          (/\ k \in DOMAIN fetch_status'
           /\ fetch_status[k].status = "running"
           /\ fetch_status'[k].status = "completed"
           /\ fetch_status'[k].completed_chunks = fetch_status'[k].total_chunks)
              => fetch_status[k].completed_chunks = fetch_status[k].total_chunks]_vars

\* C35: a quote request that called the provider once, the answer being a
\* quote, an empty answer or an exception followed by the recent-record
\* fallback, appends exactly one timestamp by record_call; a request served
\* from a cache appends none.
C35_OneRecordPerProviderCall ==
    [][q_last' # q_last =>
          LET added == Len(recorded') - Len(recorded)
          IN /\ q_last'.answer = "unasked" => added = 0
             /\ (q_last'.answer # "unasked" /\ q_last'.source \in {"provider", "recent"})
                   => added = 1]_vars

\* C34: a client thread goes on to its provider call only from a
\* wait_for_slot that returned true, that is, from a turn of the loop that
\* found the limiter not throttling.
C34_ProviderCallOnlyAfterSlot ==
    [][\A c \in Clients :
          (rl_pc[c] = "wait" /\ rl_pc'[c] = "call")
              => ~(/\ enable_throttling
                   /\ should_throttle(PopOld(minute_calls, clock - MinuteWindow),
                                      PopOld(hour_calls, clock - HourWindow),
                                      last_call_time, clock))]_vars

\* C33: a request on the history route with a malformed start or end date,
\* or with an end date after today, is answered 400 with a detail and
\* without data.
C33_BadDatesAnswered400 ==
    (/\ hreq.n > 0
     /\ \/ hreq.start_date = MalformedDate
        \/ hreq.end_date = MalformedDate
        \/ hreq.end_date > hreq.today)
        => /\ hreq.status = 400
           /\ hreq.detail # "none"
           /\ hreq.history = <<>>


----------------------------------------------------------------------------
(* SpecGoldChi: quote requests for VN.GOLD.C as the hours pass. The store  *)
(* holds per-Luong rows of days gone by, written by the gold client or by a *)
(* lazy-fetch worker; the provider answers with per-Luong prices.           *)

\* Per-Luong prices: of the rows of the client, of the rows of the workers,
\* of the provider.
LuongPrices == <<300, 500, 700>>

GoldChiQuotes == {<<"ok", LuongPrices[3]>>, <<"empty", 0>>, <<"raise", 0>>}

InitGoldChi ==
    /\ asset_type = "GOLD"
    /\ \E day \in GoldQuoteDays :
          /\ clock = day * 86400
          /\ \E cached \in SUBSET (1..day), lazy \in BOOLEAN :
                historical_records =
                    [d \in Dates |-> IF d \notin cached THEN NoRow
                                     ELSE IF lazy THEN LazyRow(LuongPrices[2])
                                     ELSE RowOf(FullBar(LuongPrices[1]))]
    /\ hist_req = <<0, 0, FALSE>>
    /\ hist_result = <<>>
    /\ hist_calls = <<>>
    /\ hist_marked = 0
    /\ hist_n = 0
    /\ QuoteIdle
    /\ PureIdle
    /\ StoreIdle
    /\ LazyIdle
    /\ RateIdle
    /\ enable_throttling = TRUE

NextGoldChi ==
    \/ \E answer \in GoldChiQuotes : GetGoldQuote(answer, TRUE)
    \/ GoldQuoteTick

SpecGoldChi == InitGoldChi /\ [][NextGoldChi]_vars

\* C36: the quote a VN.GOLD.C request returns, by whichever path, carries in
\* every price field it has a per-Luong price divided by 10 once.
C36_ConvertedExactlyOnce ==
    q_last.result # NoQuote =>
        \E i \in 1..Len(LuongPrices) :
           \A f \in {"open", "high", "low", "close", "nav"} :
              q_last.result[f] = NULL \/ q_last.result[f] = LuongPrices[i] \div 10


----------------------------------------------------------------------------
(* SpecRestart: start_background_tasks and stop_background_tasks called in *)
(* turn while the refresh task and the cleanup threads run.                *)

InitRestart == ServiceIdle /\ PureIdle

NextRestart ==
    \/ StartBackgroundTasks
    \/ StopBackgroundTasks
    \/ RestartBackgroundTasks
    \/ RefreshPass
    \/ CleanupCheck
    \/ \E raised \in BOOLEAN : CleanupWork(raised)
    \/ CleanupSleepCheck
    \/ CleanupWait
    \/ \E i \in 1..MaxRestarts, raised \in BOOLEAN : OlderCleanupStep(i, raised)

SpecRestart == InitRestart /\ [][NextRestart]_vars

\* C40: whatever the sequence of start_background_tasks and
\* stop_background_tasks calls, at most one cleanup thread and at most one
\* refresh task are alive.
C40_OneCleanupThreadOneRefreshTask ==
    /\ CleanupThreadsAlive <= 1
    /\ RefreshTasksAlive <= 1

====
